---- MODULE Spec2Model ----
(***************************************************************************)
(* Model of the classification decision pipeline of mvp-doc-ai:            *)
(*   ClassificationService.classify, OllamaClient.chatWithTools,           *)
(*   ToolRegistry (get_gold_example), ExampleStore, LearningService,       *)
(*   ConfidenceCalculator and the threshold utility.                       *)
(*                                                                         *)
(* Confidences are integers in percent (0.7 is 70).  A final confidence is *)
(* the product of three percent values, so it is kept in units of 10^-6    *)
(* (0.7 is 700000); ToFinal converts a percent value to that unit.          *)
(***************************************************************************)
EXTENDS Integers, Naturals, Sequences, FiniteSets, TLC

VARIABLES
  settings,           \* settings table: threshold key -> stored percent or NoValue
  store,              \* corrections joined with docs: a sequence of rows
  currentDocumentId,  \* OllamaClient.currentDocumentId (no caller ever sets it)
  log,                \* tool_usage_logs rows written by ToolUsageLogger.log
  pc,                 \* position of the classify call
  ocrText,            \* classify's ocrText argument
  docId,              \* classify's documentId argument
  pass,               \* which chatWithTools call of classify is running (1, 2)
  messages,           \* chatWithTools: currentMessages
  iterations,         \* chatWithTools: iterations
  toolUsed,           \* chatWithTools: toolUsed
  sent,               \* chat requests sent by the running chatWithTools call
  assistantMessage,   \* chatWithTools: the reply whose tool calls are executed
  pending,            \* chatWithTools: tool calls of that reply still to execute
  calls,              \* tool calls executed by the running chatWithTools call
  chatResult,         \* what chatWithTools returned or threw
  first,              \* classify: first-pass locals
  retry,              \* classify: learning-retry locals
  result,             \* what classify returned or threw
  ext,                \* the ExtractionService.extract call: position, locals, outcome
  req,                \* the last threshold update: its input, outcome and the table before
  doc,                \* an uploaded document: its row and the position of its processing
  met,                \* MetricStore: corrections saved, cache, getMetrics calls in flight
  applied,            \* the last call of a function of the services: input and output
  cor,                \* POST /:id/correct: the docs row and the requests in flight
  lazy                \* GET /docs/:id: the docs row and the requests in flight

envVars == <<settings, store>>
chatVars == <<messages, iterations, toolUsed, sent, assistantMessage, pending, calls>>
chatAll == <<messages, iterations, toolUsed, sent, assistantMessage, pending, calls,
            chatResult>>
clsVars == <<ocrText, docId, pass, first, retry, result>>
classifyVars == <<currentDocumentId, log, pc, ocrText, docId, pass,
                  messages, iterations, toolUsed, sent, assistantMessage, pending,
                  calls, chatResult, first, retry, result>>
laterVars == <<applied, cor, lazy>>
otherVars == <<ext, req, doc, met, applied, cor, lazy>>
vars == <<settings, store, currentDocumentId, log, pc, ocrText, docId, pass,
          messages, iterations, toolUsed, sent, assistantMessage, pending,
          calls, chatResult, first, retry, result, ext, req, doc, met, applied, cor, lazy>>

-----------------------------------------------------------------------------
(* Bounds of the model *)

MaxToolCalls == 2
MaxPages == 2

\* getMetrics calls, correction requests and clock steps of a run
MaxCalls == 2
MaxCorrections == 2
MaxTicks == 3

\* the longest string of separators, signs and digits given to coerceToNumber
MaxNumberLength == 4

\* the words of one OCR page searched by findFieldLocation
MaxLocationWords == 2

\* correction requests and document requests in flight at once
MaxCorrectionRequests == 2
MaxReads == 2

-----------------------------------------------------------------------------
(* Program constants *)

LOW_CONFIDENCE_THRESHOLD == 70
MAPPED_TYPE_CONFIDENCE_CAP == 60
DEFAULT_MAPPED_CONFIDENCE == 50
DEFAULT_THRESHOLD == 70
DEFAULT_CONFIDENCE_THRESHOLD == 70
DEFAULT_MAX_ITERATIONS == 3
OCR_TEXT_EXCERPT_LENGTH == 500
CONFIDENCE_MIN == 0
CONFIDENCE_MAX == 100
DEFAULT_LLM_CONFIDENCE == 80
CLASSIFICATION_VALIDATION_CONFIDENCE == 100
CLARITY_CONFIDENCE_NO_TEXT == 40
CLARITY_CONFIDENCE_NO_KEYWORDS == 100
CLARITY_CONFIDENCE_ALL_KEYWORDS == 100
CLARITY_CONFIDENCE_MOST_KEYWORDS == 70
CLARITY_CONFIDENCE_FEW_KEYWORDS == 40
VALIDATION_CONFIDENCE_PASS == 100
LLM_CONFIDENCE_LOW_THRESHOLD == 70
CLARITY_CONFIDENCE_LOW_THRESHOLD == 70
VALIDATION_CONFIDENCE_CRITICAL_THRESHOLD == 30
CLARITY_CONFIDENCE_POOR_THRESHOLD == 40

\* null and undefined
NoValue == "NoValue"

\* an optional value is a sequence of length at most 1: <<>> is undefined/null
None == <<>>
Some(v) == <<v>>

\* the outcome of a call: it throws (a promise: rejects), or returns v
Thrown == [ok |-> FALSE]
Returned(v) == [ok |-> TRUE, v |-> v]

Min(a, b) == IF a <= b THEN a ELSE b
Max(a, b) == IF a >= b THEN a ELSE b

\* a percent value in the unit of a final confidence
ToFinal(p) == p * 10000

-----------------------------------------------------------------------------
(* Document types *)

DocumentTypeEnum ==
  {"Bank Statement", "Government ID", "W-9", "Certificate of Insurance",
   "Articles of Incorporation", "Unknown"}

\* the document_type strings the modelled LLM may report
LlmTypes ==
  {"Bank Statement", "Government ID", "Unknown", "Driver License", "Invoice"}

\* String.prototype.toLowerCase on the strings of the model
ToLowerCase(s) ==
  CASE s = "Bank Statement" -> "bank statement"
    [] s = "Government ID" -> "government id"
    [] s = "Unknown" -> "unknown"
    [] s = "Driver License" -> "driver license"
    [] s = "Invoice" -> "invoice"
    [] OTHER -> s

DOCUMENT_TYPE_MAPPING ==
  [k \in {"conditional sales contract", "sales contract", "contract",
          "driver license", "drivers license", "passport", "tax form", "w9"} |->
     CASE k \in {"conditional sales contract", "sales contract", "contract"} ->
            "Certificate of Insurance"
       [] k \in {"driver license", "drivers license", "passport"} -> "Government ID"
       [] OTHER -> "W-9"]

\* null is NoValue
mapDocumentTypeVariation(predictedType) ==
  LET normalizedType == ToLowerCase(predictedType)
  IN IF normalizedType \in DOMAIN DOCUMENT_TYPE_MAPPING
       THEN DOCUMENT_TYPE_MAPPING[normalizedType]
       ELSE NoValue

\* currentConfidence || DEFAULT_MAPPED_CONFIDENCE: undefined and 0 are falsy
adjustConfidenceAfterMapping(currentConfidence) ==
  Min(IF currentConfidence = None \/ currentConfidence = Some(0)
        THEN DEFAULT_MAPPED_CONFIDENCE
        ELSE currentConfidence[1],
      MAPPED_TYPE_CONFIDENCE_CAP)

-----------------------------------------------------------------------------
(* ConfidenceCalculator *)

EXPECTED_KEYWORDS_MAP ==
  [t \in DocumentTypeEnum \ {"Unknown"} |->
     CASE t = "Bank Statement" ->
            {"account", "balance", "statement", "bank", "transaction"}
       [] t = "Government ID" ->
            {"license", "identification", "id", "expires", "date of birth", "dob"}
       [] t = "W-9" -> {"w-9", "tax", "ein", "ssn", "irs", "taxpayer"}
       [] t = "Certificate of Insurance" ->
            {"insurance", "policy", "certificate", "coverage", "insured"}
       [] OTHER ->
            {"articles", "incorporation", "state", "corporation", "entity", "filed"}]

\* a value passed on as it came
clampConfidenceNot(value) == value

clampConfidence(value) == Max(CONFIDENCE_MIN, Min(CONFIDENCE_MAX, value))

\* modelOutput is the parsed reply object; its confidence is optional
calculateLLMConfidence(modelOutput) ==
  IF modelOutput.confidence # None
    THEN clampConfidence(modelOutput.confidence[1])
    ELSE DEFAULT_LLM_CONFIDENCE

getExpectedKeywords(documentType) ==
  IF documentType \in DOMAIN EXPECTED_KEYWORDS_MAP
    THEN EXPECTED_KEYWORDS_MAP[documentType]
    ELSE {}

\* matchRatio = found / total, compared with 1.0 and 0.5
mapMatchRatioToClarityConfidence(found, total) ==
  IF found >= total THEN CLARITY_CONFIDENCE_ALL_KEYWORDS
  ELSE IF 2 * found >= total THEN CLARITY_CONFIDENCE_MOST_KEYWORDS
  ELSE CLARITY_CONFIDENCE_FEW_KEYWORDS

\* a text is [blank, kws]: whether it trims to nothing, and the keywords
\* (lower case) that occur in it
calculateClarityConfidence(text, expectedKeywords) ==
  IF text.blank THEN CLARITY_CONFIDENCE_NO_TEXT
  ELSE IF expectedKeywords = {} THEN CLARITY_CONFIDENCE_NO_KEYWORDS
  ELSE mapMatchRatioToClarityConfidence(
         Cardinality(expectedKeywords \cap text.kws), Cardinality(expectedKeywords))

\* the product of three percent values, clamped to [0, 1]
calculateFinalConfidence(llm, validation, clarity) ==
  Max(ToFinal(CONFIDENCE_MIN), Min(ToFinal(CONFIDENCE_MAX), llm * validation * clarity))

\* the reasons for a breakdown whose values are the sums of n breakdowns, to
\* be read as their averages (n = 1 for a single breakdown)
lowConfidenceReasons(breakdown, threshold, n) ==
  IF breakdown.final_confidence >= n * ToFinal(threshold) THEN <<>>
  ELSE
  LET model == IF breakdown.llm_confidence < n * LLM_CONFIDENCE_LOW_THRESHOLD
                 THEN <<"Model uncertainty">> ELSE <<>>
      validation ==
        IF breakdown.validation_confidence < n * VALIDATION_CONFIDENCE_PASS
          THEN IF breakdown.validation_confidence <= n * VALIDATION_CONFIDENCE_CRITICAL_THRESHOLD
                 THEN <<"Validation failed">> ELSE <<"Partial validation">>
          ELSE <<>>
      clarity ==
        IF breakdown.clarity_confidence < n * CLARITY_CONFIDENCE_LOW_THRESHOLD
          THEN IF breakdown.clarity_confidence <= n * CLARITY_CONFIDENCE_POOR_THRESHOLD
                 THEN <<"Poor document quality">> ELSE <<"Missing keywords">>
          ELSE <<>>
      reasons == model \o validation \o clarity
  IN IF reasons = <<>> THEN <<"Combined factors">> ELSE reasons

\* a list that always names the combined factors, whatever the score
generateReasonsUnconditionally(breakdown, threshold) == <<"Combined factors">>

generateLowConfidenceReasons(breakdown, threshold) ==
  lowConfidenceReasons(breakdown, threshold, 1)

calculateClassificationConfidence(modelOutput, text, predictedType, threshold) ==
  LET llm == calculateLLMConfidence(modelOutput)
      clarity == calculateClarityConfidence(text, getExpectedKeywords(predictedType))
      final == calculateFinalConfidence(llm, CLASSIFICATION_VALIDATION_CONFIDENCE, clarity)
      breakdown == [llm_confidence |-> llm,
                    validation_confidence |-> CLASSIFICATION_VALIDATION_CONFIDENCE,
                    clarity_confidence |-> clarity,
                    final_confidence |-> final]
  IN [llm_confidence |-> llm,
      validation_confidence |-> CLASSIFICATION_VALIDATION_CONFIDENCE,
      clarity_confidence |-> clarity,
      final_confidence |-> final,
      reasons |-> generateLowConfidenceReasons(breakdown, threshold)]

-----------------------------------------------------------------------------
(* JavaScript values of GoldExample.ocrText *)

\* a string of len characters; json is the page array it parses to as JSON, if any
JsString(len, json) == [t |-> "string", len |-> len, json |-> json]
\* an array of OCR pages, given by the lengths of the pages' texts
JsArray(pages) == [t |-> "array", pages |-> pages]

RECURSIVE SumSeq(_)
SumSeq(s) == IF s = <<>> THEN 0 ELSE s[1] + SumSeq(Tail(s))

\* length of pages.map(page => page.text).join('\n')
JoinedLength(pages) ==
  IF pages = <<>> THEN 0 ELSE SumSeq(pages) + (Len(pages) - 1)

-----------------------------------------------------------------------------
(* ExampleStore *)

\* docs.ocr_json: NULL or the JSON text of the page array (JSON.stringify(ocrResults))
OcrNull == [kind |-> "null"]
OcrPages(pages) == [kind |-> "pages", pages |-> pages]

\* row.ocrText ? JSON.parse(row.ocrText) : EMPTY_JSON_STRING
parseGoldExampleFromRow(row) ==
  [docId |-> row.docId,
   docType |-> row.docType,
   ocrText |-> IF row.ocr_json.kind = "null"
                 THEN JsString(0, None)
                 ELSE JsArray(row.ocr_json.pages),
   extraction |-> row.extraction,
   correctedValue |-> row.correctedValue,
   fieldName |-> row.fieldName]

\* WHERE d.type = ? AND c.is_gold = 1 [AND (d.ocr_json LIKE ? OR ...)]
MatchingRows(rows, docType, keywords) ==
  {i \in DOMAIN rows :
     /\ rows[i].docType = docType
     /\ rows[i].is_gold
     /\ (keywords = {} \/ keywords \cap rows[i].kws # {})}

DbError == [kind |-> "error"]
DbNull == [kind |-> "null"]
DbExample(e) == [kind |-> "example", example |-> e]

\* the outcomes of getGoldExample: the query may fail, ORDER BY RANDOM() LIMIT 1
\* picks any matching row
getGoldExample(rows, docType, keywords) ==
  LET m == MatchingRows(rows, docType, keywords)
  IN {DbError} \cup
     (IF m = {} THEN {DbNull}
      ELSE {DbExample(parseGoldExampleFromRow(rows[i])) : i \in m})

\* the outcomes of getGoldExampleCounts: the query fails, or the counts per type
getGoldExampleCounts(rows) ==
  {Thrown,
   Returned([t \in {rows[i].docType : i \in {j \in DOMAIN rows : rows[j].is_gold}} |->
      Cardinality({i \in DOMAIN rows : rows[i].is_gold /\ rows[i].docType = t})])}

-----------------------------------------------------------------------------
(* ToolRegistry *)

RegisteredTools == {"get_gold_example"}

KwAbsent == [t |-> "absent"]
KwArray(v) == [t |-> "array", v |-> v]
\* a string; json is the array it parses to as JSON, if any
KwString(json) == [t |-> "string", json |-> json]

sanitizeKeywords(keywords) ==
  CASE keywords.t = "absent" -> {}
    [] keywords.t = "array" -> keywords.v
    [] OTHER -> IF keywords.json # None THEN keywords.json[1] ELSE {}

extractOcrTextFromExample(example) ==
  IF example.ocrText.t = "string"
    THEN IF example.ocrText.json # None
           THEN JsString(JoinedLength(example.ocrText.json[1]), None)
           ELSE example.ocrText
    ELSE example.ocrText

\* ocrText.substring throws a TypeError when ocrText is not a string
buildGoldExampleResponse(example) ==
  LET text == extractOcrTextFromExample(example)
  IN IF text.t # "string" THEN Thrown
     ELSE Returned(
       [found |-> TRUE,
        document_type |-> example.docType,
        ocr_text_excerpt |-> Min(text.len, OCR_TEXT_EXCERPT_LENGTH),
        corrected_extraction |-> example.extraction,
        corrected_field |-> IF example.fieldName # None
                              THEN Some(example.correctedValue) ELSE None,
        note |-> "This is a corrected example."])

buildNoExampleResponse(docType) ==
  [found |-> FALSE, message |-> docType]

buildErrorResponse ==
  [found |-> FALSE, error |-> "Failed to retrieve example"]

\* what the get_gold_example handler returns when getGoldExample ends with
\* outcome o; the catch turns every exception of the try block into the error
\* envelope, so the handler never throws
goldExampleResult(o, args) ==
  IF o.kind = "error" THEN buildErrorResponse
  ELSE IF o.kind = "null" THEN buildNoExampleResponse(args.doc_type)
  ELSE IF buildGoldExampleResponse(o.example).ok
         THEN buildGoldExampleResponse(o.example).v
         ELSE buildErrorResponse

\* the possible outcomes of the get_gold_example handler: the envelope it
\* returns, with the outcome of the store lookup behind it
handleGetGoldExample(rows, args) ==
  {[ok |-> TRUE, v |-> goldExampleResult(o, args), lookup |-> o.kind] :
   o \in getGoldExample(rows, args.doc_type, sanitizeKeywords(args.keywords))}

\* the possible outcomes of the handler made by createToolHandler: executeTool
\* throws for a tool that is not registered
executeTool(rows, toolName, args) ==
  IF toolName \notin RegisteredTools THEN {[ok |-> FALSE, lookup |-> "none"]}
  ELSE handleGetGoldExample(rows, args)

-----------------------------------------------------------------------------
(* OllamaClient helpers *)

ArgsObject(v) == [form |-> "object", v |-> v]
\* a string; json is the object it parses to as JSON, if any
ArgsString(json) == [form |-> "string", json |-> json]

parseToolArguments(args) ==
  IF args.form = "object" THEN Returned(args.v)
  ELSE IF args.json # None THEN Returned(args.json[1]) ELSE Thrown

createErrorResponse(error) == [error |-> error]

\* a loop without the try/catch around the handler
catchToolErrorRethrown(o) ==
  [propagated |-> ~o.ok,
   success |-> o.ok,
   toolResult |-> IF o.ok THEN o.v ELSE createErrorResponse("Tool not found")]

\* try { toolResult = await toolHandler(...) } catch { success = false; ... }:
\* what the loop makes of the handler's outcome o
catchToolError(o) ==
  [propagated |-> FALSE,
   success |-> o.ok,
   toolResult |-> IF o.ok THEN o.v ELSE createErrorResponse("Tool not found")]

-----------------------------------------------------------------------------
(* threshold utility *)

DOCUMENT_TYPE_TO_KEY ==
  [t \in DocumentTypeEnum |->
     CASE t = "Bank Statement" -> "threshold_bank_statement"
       [] t = "Government ID" -> "threshold_government_id"
       [] t = "W-9" -> "threshold_w9"
       [] t = "Certificate of Insurance" -> "threshold_coi"
       [] t = "Articles of Incorporation" -> "threshold_articles"
       [] OTHER -> "threshold_unknown"]

ThresholdKeys == {DOCUMENT_TYPE_TO_KEY[t] : t \in DocumentTypeEnum}

\* a type outside the table gets a derived key, which no stored row has
buildThresholdKey(type) ==
  IF type \in DOMAIN DOCUMENT_TYPE_TO_KEY
    THEN DOCUMENT_TYPE_TO_KEY[type]
    ELSE "threshold_" \o ToLowerCase(type)

\* the outcomes of getThreshold: the stored value, or the default when no row is
\* stored or the query fails
getThreshold(table, type) ==
  LET key == buildThresholdKey(type)
  IN {DEFAULT_THRESHOLD} \cup
     (IF key \in DOMAIN table /\ table[key] # None THEN {table[key][1]} ELSE {})

\* the threshold getThreshold returns for type while the settings store answers
StoredThreshold(table, type) ==
  LET key == buildThresholdKey(type)
  IN IF key \in DOMAIN table /\ table[key] # None
       THEN table[key][1] ELSE DEFAULT_THRESHOLD

-----------------------------------------------------------------------------
(* LearningService *)

LearnThrown == [kind |-> "thrown"]
LearnNone == [kind |-> "none"]
LearnExample(e) == [kind |-> "example", example |-> e]

\* the outcomes of shouldUseLearning: it rejects when the count query does
shouldUseLearning(rows, confidence, docType, threshold) ==
  IF confidence >= ToFinal(threshold) THEN {Returned(FALSE)}
  ELSE {IF ~c.ok THEN Thrown
        ELSE Returned(IF docType \in DOMAIN c.v THEN c.v[docType] > 0 ELSE FALSE) :
        c \in getGoldExampleCounts(rows)}

\* the outcomes of retrieveLearningExample; keywords default to []
retrieveLearningExample(rows, docType, confidence) ==
  UNION {IF ~s.ok THEN {LearnThrown}
         ELSE IF ~s.v THEN {LearnNone}
         ELSE {IF o.kind = "example" THEN LearnExample(o.example) ELSE LearnNone :
               o \in getGoldExample(rows, docType, {})} :
         s \in shouldUseLearning(rows, confidence, docType, DEFAULT_CONFIDENCE_THRESHOLD)}

\* the user turn prepareLearningPrompt and buildLearningUserPrompt make: one
\* worked example embedded in the prompt
buildLearningUserPrompt(example) ==
  [role |-> "user", content |-> [kind |-> "learning", example |-> example.docId]]

buildUserPrompt == [role |-> "user", content |-> [kind |-> "classify"]]

SystemPrompt == [role |-> "system", content |-> [kind |-> "system"]]

-----------------------------------------------------------------------------
(* Inputs: what the LLM, the callers and the database may supply *)

DocIds == {1}

Text(blank, kws) == [blank |-> blank, kws |-> kws]

\* a bank statement with every keyword, and a page with three of the five bank
\* keywords and three of the six ID keywords
OcrTexts ==
  {Text(FALSE, {"account", "balance", "statement", "bank", "transaction"}),
   Text(FALSE, {"account", "bank", "statement", "license", "id", "expires"})}

LlmConfidences == {None, Some(65), Some(95)}

Garbage == [kind |-> "garbage"]
Answer(t, c, e) ==
  [kind |-> "object", document_type |-> t, confidence |-> c, evidence |-> e]

\* the content of a reply without tool calls: text that is no JSON, or an object
LlmContents ==
  {Garbage} \cup {Answer(t, c, Some("seen")) : t \in LlmTypes, c \in LlmConfidences}
  \cup {Answer("Bank Statement", Some(65), None),
         Answer("Bank Statement", Some(120), Some("seen")),
         Answer("Driver License", Some(0), Some("seen"))}

GoldArgs(t, k) == [doc_type |-> t, keywords |-> k]
ToolCall(name, args) == [name |-> name, arguments |-> args]

\* the tool calls the LLM may make: the registered tool with an object or a JSON
\* string as arguments, a tool that is not registered, and an argument string
\* that is no JSON
LlmToolCalls ==
  {ToolCall("get_gold_example", ArgsObject(GoldArgs("Bank Statement", KwArray({"bank"})))),
   ToolCall("get_gold_example", ArgsString(Some(GoldArgs("Government ID", KwAbsent)))),
   ToolCall("get_gold_example", ArgsObject(GoldArgs("W-9", KwString(None)))),
   ToolCall("lookup_example", ArgsObject(GoldArgs("Bank Statement", KwAbsent))),
   ToolCall("get_gold_example", ArgsString(None))}

\* the calls that may follow the first call of a reply
LlmFollowUpToolCalls ==
  {ToolCall("lookup_example", ArgsObject(GoldArgs("Bank Statement", KwAbsent))),
   ToolCall("get_gold_example", ArgsString(None))}

\* the lists of 1..n tool calls of a reply
RECURSIVE ToolCallLists(_)
ToolCallLists(n) ==
  IF n = 0 THEN {}
  ELSE IF n = 1 THEN {<<c>> : c \in LlmToolCalls}
  ELSE LET shorter == ToolCallLists(n - 1)
       IN shorter \cup {Append(q, x) : q \in shorter, x \in LlmFollowUpToolCalls}

Reply(toolCalls, content) ==
  [role |-> "assistant", tool_calls |-> toolCalls, content |-> content]

\* the replies of the LLM: a final answer, or up to MaxToolCalls tool calls
LlmReplies ==
  {Reply(<<>>, c) : c \in LlmContents} \cup
  {Reply(q, Garbage) : q \in ToolCallLists(MaxToolCalls)}

Row(id, t, gold, ocr, kws, field) ==
  [docId |-> id, docType |-> t, is_gold |-> gold, ocr_json |-> ocr, kws |-> kws,
   extraction |-> "extraction", correctedValue |-> "corrected", fieldName |-> field]

\* a gold correction of a bank statement with MaxPages pages of OCR text, a gold
\* correction of an ID whose document has no OCR data, and a correction of a
\* W-9 that is not gold
InitialStore ==
  <<Row(1, "Bank Statement", TRUE, OcrPages([i \in 1..MaxPages |-> 400]),
        {"account", "bank", "statement"}, Some("account_number")),
    Row(2, "Government ID", TRUE, OcrNull, {}, None),
    Row(3, "W-9", FALSE, OcrPages(<<300>>), {"tax", "w-9"}, None)>>

\* thresholds stored for two types; the others use the default
InitialSettings ==
  [k \in ThresholdKeys |->
     CASE k = "threshold_bank_statement" -> Some(90)
       [] k = "threshold_government_id" -> Some(50)
       [] OTHER -> None]

-----------------------------------------------------------------------------
(* State *)

NoAnswer == Answer("", None, None)
NoBreakdown ==
  [llm_confidence |-> 0, validation_confidence |-> 0, clarity_confidence |-> 0,
   final_confidence |-> 0, reasons |-> <<>>]

\* classify before its first pass has been scored
NoFirst ==
  [set |-> FALSE, rawType |-> "", parsed |-> NoAnswer, mapped |-> FALSE,
   threshold |-> 0, breakdown |-> NoBreakdown, toolUsed |-> FALSE]

\* classify before its learning retry
NoRetry ==
  [count |-> 0, returned |-> FALSE, toolUsed |-> FALSE, scored |-> FALSE,
   parsed |-> NoAnswer, breakdown |-> NoBreakdown, adopted |-> FALSE]

NoChatResult == [kind |-> "none"]

\* a return that reports the flag as it was before the loop
ChatOkToolUnused(response, used, n) ==
  [kind |-> "ok", response |-> response, toolUsed |-> FALSE, iterations |-> n]

ChatOk(response, used, n) ==
  [kind |-> "ok", response |-> response, toolUsed |-> used, iterations |-> n]
ChatError(e) == [kind |-> "error", error |-> e]

NoResult == [kind |-> "none"]
ClassifyError(e) == [kind |-> "error", error |-> e]

NoMessage == Reply(<<>>, Garbage)

\* no threshold update was made
NoRequest == [kind |-> "none"]

\* no function of the services was called yet
NoApplication == [fn |-> "none"]

\* no document is stored for the correction route
NoCorrections == [stored |-> FALSE]

\* no document is stored for the document route
NoReads == [stored |-> FALSE]

\* no document was uploaded
NoDocument ==
  [pc |-> "none", status |-> "", written |-> <<>>, text |-> Text(TRUE, {}), type |-> None,
   classification |-> NoResult, extraction |-> [kind |-> "none"], original |-> "",
   threshold |-> 0, failure |-> ""]

\* a MetricStore after construction, with no correction saved
NoMetrics ==
  [corrections |-> 0, completed |-> 0, cache |-> None, now |-> 0, correcting |-> "idle",
   calls |-> [c \in 1..MaxCalls |->
                [pc |-> "idle", completedAtStart |-> 0,
                 snapshot |-> [at |-> 0, empty |-> FALSE]]]]

\* no extract call is running
NoExtraction ==
  [pc |-> "idle", documentType |-> "", text |-> Text(TRUE, {}), threshold |-> 0,
   usedExample |-> FALSE, reply |-> <<>>, modelOutput |-> NoAnswer,
   scored |-> NoBreakdown,
   result |-> [kind |-> "none"]]

Init ==
  /\ settings = InitialSettings
  /\ store = InitialStore
  /\ currentDocumentId = None
  /\ log = <<>>
  /\ pc = "idle"
  /\ ocrText = Text(TRUE, {})
  /\ docId = 1
  /\ pass = 0
  /\ messages = <<>>
  /\ iterations = 0
  /\ toolUsed = FALSE
  /\ sent = 0
  /\ assistantMessage = NoMessage
  /\ pending = <<>>
  /\ calls = <<>>
  /\ chatResult = NoChatResult
  /\ first = NoFirst
  /\ retry = NoRetry
  /\ result = NoResult
  /\ ext = NoExtraction
  /\ req = NoRequest
  /\ doc = NoDocument
  /\ met = NoMetrics
  /\ applied = NoApplication
  /\ cor = NoCorrections
  /\ lazy = NoReads

-----------------------------------------------------------------------------
(* OllamaClient *)

\* the entry of chatWithTools: the locals before the loop
EnterChatWithTools(initialMessages) ==
  /\ messages' = initialMessages
  /\ iterations' = 0
  /\ toolUsed' = FALSE
  /\ sent' = 0
  /\ assistantMessage' = NoMessage
  /\ pending' = <<>>
  /\ calls' = <<>>
  /\ chatResult' = NoChatResult

\* a loop that allows one request more than the cap
LoopContinuesOffByOne(n, maxIterations) == n <= maxIterations

\* while (iterations < maxIterations)
LoopContinues(n, maxIterations) == n < maxIterations

\* one turn of the loop up to the reply: iterations++, the request, and the
\* branch on the reply's tool calls.  chat() may throw instead of replying.
ChatTurn ==
  /\ pc = "chat"
  /\ iterations' = iterations + 1
  /\ sent' = sent + 1
  /\ \/ \* chat() throws: the error leaves chatWithTools
        /\ chatResult' = ChatError("chat")
        /\ pc' = "ret"
        /\ assistantMessage' = NoMessage
        /\ UNCHANGED <<toolUsed, pending>>
     \/ \E reply \in LlmReplies :
          /\ assistantMessage' = reply
          /\ IF Len(reply.tool_calls) > 0
               THEN /\ toolUsed' = TRUE
                    /\ pending' = reply.tool_calls
                    /\ pc' = "tools"
                    /\ UNCHANGED chatResult
               ELSE /\ chatResult' = ChatOk(reply, toolUsed, iterations + 1)
                    /\ pc' = "ret"
                    /\ UNCHANGED <<toolUsed, pending>>
  /\ UNCHANGED <<settings, store, currentDocumentId, log, messages, calls>>
  /\ UNCHANGED clsVars
  /\ UNCHANGED otherVars

\* the tool-result turn appended for a call
ToolTurn(content) == [role |-> "tool", content |-> content]

\* the row ToolUsageLogger.log inserts
LogRow(d, call, args, toolResult, success) ==
  [documentId |-> d, toolName |-> call.name, toolArgs |-> args,
   toolResult |-> toolResult, success |-> success]

\* the body of the for loop for one tool call; after the last call of a reply
\* the loop condition decides between the next request and the final throw
ExecuteToolCall ==
  /\ pc = "tools"
  /\ pending # <<>>
  /\ LET toolCall == Head(pending)
         toolArgs == parseToolArguments(toolCall.arguments)
     IN IF ~toolArgs.ok
          THEN \* JSON.parse of the arguments throws outside the try
               /\ chatResult' = ChatError("arguments")
               /\ pc' = "ret"
               /\ UNCHANGED <<messages, pending, calls, log>>
          ELSE \E o \in executeTool(store, toolCall.name, toolArgs.v) :
                 LET c == catchToolError(o)
                 IN IF c.propagated
                      THEN /\ chatResult' = ChatError("handler")
                           /\ pc' = "ret"
                           /\ UNCHANGED <<messages, pending, calls, log>>
                      ELSE
                      /\ calls' = Append(calls,
                            [name |-> toolCall.name, args |-> toolArgs.v,
                             threw |-> ~o.ok, lookup |-> o.lookup,
                             success |-> c.success, toolResult |-> c.toolResult])
                      /\ IF currentDocumentId # None
                           THEN log' = Append(log,
                                  LogRow(currentDocumentId[1], toolCall, toolArgs.v,
                                         c.toolResult, c.success))
                           ELSE UNCHANGED log
                      /\ messages' = messages \o <<assistantMessage, ToolTurn(c.toolResult)>>
                      /\ pending' = Tail(pending)
                      /\ IF Tail(pending) # <<>>
                           THEN UNCHANGED <<pc, chatResult>>
                           ELSE IF LoopContinues(iterations, DEFAULT_MAX_ITERATIONS)
                                  THEN pc' = "chat" /\ UNCHANGED chatResult
                                  ELSE /\ chatResult' = ChatError("max_iterations")
                                       /\ pc' = "ret"
  /\ UNCHANGED <<settings, store, currentDocumentId, iterations, toolUsed, sent,
                 assistantMessage>>
  /\ UNCHANGED clsVars
  /\ UNCHANGED otherVars

-----------------------------------------------------------------------------
(* ClassificationService.classify *)

\* classify(ocrText, documentId) up to its first await
StartClassify(text, d) ==
  /\ pc = "idle"
  /\ ocrText' = text
  /\ docId' = d
  /\ pass' = 1
  /\ EnterChatWithTools(<<SystemPrompt, buildUserPrompt>>)
  /\ pc' = "chat"
  /\ UNCHANGED <<settings, store, currentDocumentId, log, first, retry, result>>
  /\ UNCHANGED otherVars

\* JSON.parse of a reply's content
parseLLMResponse(content) ==
  IF content.kind = "garbage" THEN Thrown ELSE Returned(content)

\* the type validation of the first pass: the enum check, the remap of a known
\* variation with its confidence cap, and the throw for a type still invalid
validateDocumentType(parsed) ==
  IF parsed.document_type \in DocumentTypeEnum
    THEN Returned([parsed |-> parsed, mapped |-> FALSE])
    ELSE LET mappedType == mapDocumentTypeVariation(parsed.document_type)
         IN IF mappedType # NoValue /\ mappedType \in DocumentTypeEnum
              THEN Returned(
                [parsed |-> [parsed EXCEPT
                    !.document_type = mappedType,
                    !.confidence = Some(adjustConfidenceAfterMapping(parsed.confidence))],
                 mapped |-> TRUE])
              ELSE Thrown

\* a gate that forgets the tool-use condition
shouldRetryIgnoringTool(breakdown, used) ==
  breakdown.final_confidence < ToFinal(LOW_CONFIDENCE_THRESHOLD)

\* confidenceBreakdown.final_confidence < LOW_CONFIDENCE_THRESHOLD && !result.toolUsed
shouldRetry(breakdown, used) ==
  breakdown.final_confidence < ToFinal(LOW_CONFIDENCE_THRESHOLD) /\ ~used

\* a comparison that also adopts a retry with an equal score
adoptRetryOnTie(retryBreakdown, firstBreakdown) ==
  retryBreakdown.final_confidence >= firstBreakdown.final_confidence

\* retryConfidence.final_confidence > confidenceBreakdown.final_confidence
adoptRetry(retryBreakdown, firstBreakdown) ==
  retryBreakdown.final_confidence > firstBreakdown.final_confidence

\* finalConfidenceBreakdown.final_confidence < threshold
requiresReview(final_confidence, threshold) ==
  final_confidence < ToFinal(threshold)

\* finalResult.evidence || []
evidenceOrEmpty(evidence) == IF evidence = None THEN <<>> ELSE <<evidence[1]>>

\* the ClassificationModel classify returns
classificationResult(finalResult, finalConfidenceBreakdown, finalToolUsed, threshold) ==
  [kind |-> "ok",
   predicted_type |-> finalResult.document_type,
   confidence |-> finalConfidenceBreakdown.final_confidence,
   threshold |-> threshold,
   requires_review |-> requiresReview(finalConfidenceBreakdown.final_confidence, threshold),
   evidence |-> evidenceOrEmpty(finalResult.evidence),
   tool_used |-> finalToolUsed,
   llm_confidence |-> finalConfidenceBreakdown.llm_confidence,
   clarity_confidence |-> finalConfidenceBreakdown.clarity_confidence,
   final_confidence |-> finalConfidenceBreakdown.final_confidence,
   reasons |-> finalConfidenceBreakdown.reasons]

\* classify throws: the outer catch rethrows 'Classification failed: ...'
Fail(e) ==
  /\ result' = ClassifyError(e)
  /\ pc' = "done"

\* classify from the return of the first chatWithTools to the next await or the
\* return: parse, validate the type, look up the threshold, score, and decide
\* on the learning retry
ProcessFirstPass ==
  /\ pc = "ret"
  /\ pass = 1
  /\ IF chatResult.kind = "error"
       THEN Fail(chatResult.error) /\ UNCHANGED <<first, retry, pass>> /\ UNCHANGED chatAll
       ELSE
       LET raw == parseLLMResponse(chatResult.response.content)
       IN IF ~raw.ok
            THEN Fail("parse") /\ UNCHANGED <<first, retry, pass>> /\ UNCHANGED chatAll
            ELSE
            LET valid == validateDocumentType(raw.v)
            IN IF ~valid.ok
                 THEN Fail("type") /\ UNCHANGED <<first, retry, pass>> /\ UNCHANGED chatAll
                 ELSE
                 \E threshold \in getThreshold(settings, valid.v.parsed.document_type) :
                   LET parsed == valid.v.parsed
                       breakdown == calculateClassificationConfidence(
                                      parsed, ocrText, parsed.document_type, threshold)
                       f == [set |-> TRUE, rawType |-> raw.v.document_type, parsed |-> parsed,
                             mapped |-> valid.v.mapped, threshold |-> threshold,
                             breakdown |-> breakdown, toolUsed |-> chatResult.toolUsed]
                   IN /\ first' = f
                      /\ IF shouldRetry(breakdown, chatResult.toolUsed)
                           THEN \E l \in retrieveLearningExample(
                                     store, parsed.document_type, breakdown.final_confidence) :
                                  CASE l.kind = "thrown" ->
                                         /\ Fail("learning")
                                         /\ UNCHANGED <<retry, pass>>
                                         /\ UNCHANGED chatAll
                                    [] l.kind = "none" ->
                                         /\ result' = classificationResult(
                                              parsed, breakdown, chatResult.toolUsed, threshold)
                                         /\ pc' = "done"
                                         /\ UNCHANGED <<retry, pass>>
                                         /\ UNCHANGED chatAll
                                    [] OTHER ->
                                         /\ retry' = [retry EXCEPT !.count = @ + 1]
                                         /\ pass' = 2
                                         /\ EnterChatWithTools(
                                              <<SystemPrompt, buildLearningUserPrompt(l.example)>>)
                                         /\ pc' = "chat"
                                         /\ UNCHANGED result
                           ELSE /\ result' = classificationResult(
                                     parsed, breakdown, chatResult.toolUsed, threshold)
                                /\ pc' = "done"
                                /\ UNCHANGED <<retry, pass>>
                                /\ UNCHANGED chatAll
  /\ UNCHANGED <<settings, store, currentDocumentId, log, ocrText, docId>>
  /\ UNCHANGED otherVars

\* classify from the return of the retry's chatWithTools to its return
ProcessRetry ==
  /\ pc = "ret"
  /\ pass = 2
  /\ IF chatResult.kind = "error"
       THEN Fail(chatResult.error) /\ UNCHANGED retry
       ELSE
       LET retryParsed == parseLLMResponse(chatResult.response.content)
       IN IF ~retryParsed.ok
            THEN \* the inner catch: the first pass stands
                 /\ retry' = [retry EXCEPT !.returned = TRUE,
                                           !.toolUsed = chatResult.toolUsed]
                 /\ result' = classificationResult(
                      first.parsed, first.breakdown, first.toolUsed, first.threshold)
                 /\ pc' = "done"
            ELSE
            LET retryConfidence == calculateClassificationConfidence(
                  retryParsed.v, ocrText, retryParsed.v.document_type, first.threshold)
                adopt == adoptRetry(retryConfidence, first.breakdown)
            IN /\ retry' = [retry EXCEPT !.returned = TRUE,
                                         !.toolUsed = chatResult.toolUsed,
                                         !.scored = TRUE,
                                         !.parsed = retryParsed.v,
                                         !.breakdown = retryConfidence,
                                         !.adopted = adopt]
               /\ result' =
                    IF adopt
                      THEN classificationResult(
                             retryParsed.v, retryConfidence, TRUE, first.threshold)
                      ELSE classificationResult(
                             first.parsed, first.breakdown, first.toolUsed, first.threshold)
               /\ pc' = "done"
  /\ UNCHANGED <<settings, store, currentDocumentId, log, ocrText, docId, pass, first>>
  /\ UNCHANGED chatAll
  /\ UNCHANGED otherVars

-----------------------------------------------------------------------------

Next ==
  \/ \E text \in OcrTexts, d \in DocIds : StartClassify(text, d)
  \/ ChatTurn
  \/ ExecuteToolCall
  \/ ProcessFirstPass
  \/ ProcessRetry

Spec == Init /\ [][Next]_vars

TypeOK ==
  /\ pc \in {"idle", "chat", "tools", "ret", "done"}
  /\ pass \in 0..2
  /\ iterations \in 0..DEFAULT_MAX_ITERATIONS
  /\ toolUsed \in BOOLEAN

-----------------------------------------------------------------------------
(* JavaScript values of an extraction reply *)

JsUndefined == [t |-> "undefined"]
JsNull == [t |-> "null"]
JsStr(s) == [t |-> "string", s |-> s]
JsNum(n) == [t |-> "number", n |-> n]
JsBool(b) == [t |-> "boolean", b |-> b]
JsArr(a) == [t |-> "array", a |-> a]
\* an object, given by its own properties
JsObj(o) == [t |-> "object", o |-> o]

\* value.trim().length of the strings of the model
TrimLength(s) ==
  CASE s = "" -> 0
    [] s = "A" -> 1
    [] s \in {"LLC", "yes"} -> 3
    [] s = "1,234" -> 5
    [] OTHER -> 9

\* the strings of the model that match the regular expressions of the schemas
PatternMatches(pattern, s) ==
  CASE pattern = "letters" -> s \in {"LLC", "yes", "Acme Corp"}
    [] pattern = "masked_account" -> s = "****1234"
    [] pattern = "iso_date" -> s = "2024-01-31"
    [] pattern = "tax_id" -> s = "12-3456789"
    [] OTHER -> FALSE

-----------------------------------------------------------------------------
(* Extraction schemas and SchemaStore *)

FieldSchema(name, kind, pattern) == [name |-> name, kind |-> kind, pattern |-> pattern]

BankStatementSchema ==
  <<FieldSchema("account_holder_name", "regex", "letters"),
    FieldSchema("account_number_masked", "regex", "masked_account"),
    FieldSchema("statement_start_date", "regex", "iso_date"),
    FieldSchema("statement_end_date", "regex", "iso_date"),
    FieldSchema("starting_balance", "number", ""),
    FieldSchema("ending_balance", "number", "")>>

GovernmentIDSchema ==
  <<FieldSchema("full_name", "regex", "letters"),
    FieldSchema("date_of_birth", "regex", "iso_date"),
    FieldSchema("id_number", "string", ""),
    FieldSchema("address", "string", ""),
    FieldSchema("expiration_date", "regex", "iso_date")>>

W9Schema ==
  <<FieldSchema("legal_name", "string", ""),
    FieldSchema("ein_or_ssn", "regex", "tax_id"),
    FieldSchema("business_address", "string", ""),
    FieldSchema("tax_classification", "enum", ""),
    FieldSchema("signature_present", "boolean", "")>>

CertificateOfInsuranceSchema ==
  <<FieldSchema("insured_name", "string", ""),
    FieldSchema("policy_number", "string", ""),
    FieldSchema("policy_effective_date", "regex", "iso_date"),
    FieldSchema("policy_expiration_date", "regex", "iso_date"),
    FieldSchema("coverage_types", "array", "")>>

ArticlesOfIncorporationSchema ==
  <<FieldSchema("entity_legal_name", "string", ""),
    FieldSchema("state", "regex", "state_code"),
    FieldSchema("file_number", "string", ""),
    FieldSchema("filing_date", "regex", "iso_date")>>

UnknownDocumentSchema ==
  <<FieldSchema("notes", "optional_string", "")>>

TaxClassifications == {"Individual", "C-Corp", "S-Corp", "Partnership", "LLC"}

\* SchemaStore.getSchema: the shape of the type's schema, or None
getSchema(documentType) ==
  CASE documentType = "Bank Statement" -> Some(BankStatementSchema)
    [] documentType = "Government ID" -> Some(GovernmentIDSchema)
    [] documentType = "W-9" -> Some(W9Schema)
    [] documentType = "Certificate of Insurance" -> Some(CertificateOfInsuranceSchema)
    [] documentType = "Articles of Incorporation" -> Some(ArticlesOfIncorporationSchema)
    [] documentType = "Unknown" -> Some(UnknownDocumentSchema)
    [] OTHER -> None

\* Object.keys(schema.shape), in the order of the schema
getFieldNames(documentType) ==
  IF getSchema(documentType) = None THEN <<>>
  ELSE [i \in DOMAIN getSchema(documentType)[1] |-> getSchema(documentType)[1][i].name]

\* schema.shape[fieldName], or None
shapeOf(documentType, fieldName) ==
  LET shape == getSchema(documentType)[1]
      at == {i \in DOMAIN shape : shape[i].name = fieldName}
  IN IF at = {} THEN None ELSE Some(shape[CHOOSE i \in at : TRUE])

\* SchemaStore.getFieldKeywords(documentType)[fieldName] || []
getFieldKeywords(fieldName) ==
  CASE fieldName = "account_holder_name" -> {"account holder", "name", "customer", "account name"}
    [] fieldName = "account_number_masked" -> {"account number", "account #", "acct", "account no"}
    [] fieldName = "statement_start_date" ->
         {"period", "from", "beginning", "start date", "statement period"}
    [] fieldName = "statement_end_date" -> {"period", "to", "ending", "end date", "through"}
    [] fieldName = "starting_balance" ->
         {"opening", "previous balance", "beginning balance", "prior balance"}
    [] fieldName = "ending_balance" ->
         {"closing", "current balance", "ending balance", "total", "final balance"}
    [] fieldName = "full_name" -> {"name", "full name", "given name", "legal name"}
    [] fieldName = "date_of_birth" -> {"date of birth", "dob", "birth date", "born", "birthdate"}
    [] fieldName = "id_number" ->
         {"number", "id number", "license number", "passport number", "document number"}
    [] fieldName = "address" -> {"address", "residence", "street", "home address", "residential"}
    [] fieldName = "expiration_date" ->
         {"expiration", "expires", "exp", "valid until", "expiry date"}
    [] fieldName = "legal_name" -> {"name", "taxpayer name", "business name", "legal name"}
    [] fieldName = "ein_or_ssn" ->
         {"ssn", "ein", "taxpayer identification", "tin", "tax id", "social security"}
    [] fieldName = "business_address" ->
         {"address", "street", "business address", "mailing address"}
    [] fieldName = "tax_classification" ->
         {"classification", "entity type", "individual", "corporation", "llc", "partnership"}
    [] fieldName = "signature_present" ->
         {"signature", "signed", "sign here", "taxpayer signature"}
    [] fieldName = "insured_name" -> {"insured", "name of insured", "policyholder", "named insured"}
    [] fieldName = "policy_number" -> {"policy", "policy number", "certificate number", "policy #"}
    [] fieldName = "policy_effective_date" ->
         {"effective", "effective date", "from", "start date", "eff"}
    [] fieldName = "policy_expiration_date" ->
         {"expiration", "expires", "expiry", "to", "end date", "exp"}
    [] fieldName = "coverage_types" ->
         {"coverage", "type", "liability", "insurance type", "coverages"}
    [] fieldName = "entity_legal_name" ->
         {"corporation", "company name", "name", "entity name", "legal name"}
    [] fieldName = "state" -> {"state", "jurisdiction", "incorporated in", "state of incorporation"}
    [] fieldName = "file_number" ->
         {"filing", "document number", "file number", "certificate number", "file #"}
    [] fieldName = "filing_date" -> {"date", "filed", "filing date", "effective date", "date filed"}
    [] fieldName = "notes" -> {"notes", "comments", "remarks", "description"}
    [] OTHER -> {}

-----------------------------------------------------------------------------
(* TypeCoercionService *)

\* parseFloat of the cleaned string, for the strings of the model
ParsedNumber(s) ==
  CASE s = "1,234" -> Some(1234)
    [] s = "12-3456789" -> Some(12)
    [] s = "123456789" -> Some(123456789)
    [] s = "2024-01-31" -> Some(2024)
    [] OTHER -> None

\* new Date(s) as YYYY-MM-DD, for the strings the model gives to date fields;
\* a string without a digit is no date
ParsedDate(s) ==
  CASE s = "2024-01-31" -> Some("2024-01-31")
    [] s = "January 31, 2024" -> Some("2024-01-31")
    [] OTHER -> None

\* the field names of the schemas that contain one of the date patterns
\* ('date', 'time', 'start', 'end', 'due', ...)
isDateField(fieldName) ==
  fieldName \in {"statement_start_date", "statement_end_date", "starting_balance",
                 "ending_balance", "date_of_birth", "expiration_date",
                 "policy_effective_date", "policy_expiration_date", "filing_date"}

coerceToNumber(value) ==
  IF value.t = "number" THEN value
  ELSE IF value.t # "string" THEN JsNull
  ELSE IF ParsedNumber(value.s) = None THEN JsNull
  ELSE JsNum(ParsedNumber(value.s)[1])

coerceToBoolean(value) ==
  CASE value.t = "boolean" -> value
    [] value.t = "string" -> IF value.s = "yes" THEN JsBool(TRUE) ELSE JsNull
    [] value.t = "number" -> JsBool(value.n # 0)
    [] OTHER -> JsNull

coerceToArray(value) ==
  CASE value.t = "array" -> value
    [] value.t = "string" ->
         CASE value.s = "" -> JsArr(<<>>)
           [] value.s = "1,234" -> JsArr(<<"1", "234">>)
           [] value.s = "January 31, 2024" -> JsArr(<<"January 31", "2024">>)
           [] OTHER -> JsArr(<<value.s>>)
    [] OTHER -> JsNull

coerceToDate(value) ==
  IF value.t # "string" THEN value
  ELSE IF ParsedDate(value.s) # None THEN JsStr(ParsedDate(value.s)[1])
  ELSE value

isStringSchema(fieldSchema) == fieldSchema.kind \in {"string", "regex", "optional_string"}

coerceFieldValue(documentType, fieldName, value) ==
  IF value.t \in {"null", "undefined"} THEN value
  ELSE IF getSchema(documentType) = None THEN value
  ELSE IF shapeOf(documentType, fieldName) = None THEN value
  ELSE LET fieldSchema == shapeOf(documentType, fieldName)[1]
       IN CASE fieldSchema.kind = "number" -> coerceToNumber(value)
            [] fieldSchema.kind = "boolean" -> coerceToBoolean(value)
            [] fieldSchema.kind = "array" -> coerceToArray(value)
            [] isDateField(fieldName) /\ isStringSchema(fieldSchema) -> coerceToDate(value)
            [] OTHER -> value

\* a JavaScript object: its own properties and, when it was replaced, the own
\* properties of its prototype (None stands for Object.prototype)
PlainObject(own, proto) == [own |-> own, proto |-> proto]

\* obj[key]: the own property, else the property of the prototype, else undefined
GetProperty(obj, key) ==
  IF key \in DOMAIN obj.own THEN obj.own[key]
  ELSE IF obj.proto # None /\ key \in DOMAIN obj.proto[1] THEN obj.proto[1][key]
  ELSE JsUndefined

\* coercedData[fieldName] = ... for every entry of the reply.  The assignment
\* to the key __proto__ creates no property: it replaces the prototype of
\* coercedData when the value is an object.
coerceAllFields(documentType, extractedData) ==
  PlainObject(
    [k \in DOMAIN extractedData \ {"__proto__"} |->
       coerceFieldValue(documentType, k, extractedData[k])],
    IF "__proto__" \in DOMAIN extractedData /\ extractedData["__proto__"].t = "object"
      THEN Some(extractedData["__proto__"].o) ELSE None)

-----------------------------------------------------------------------------
(* ValidationService *)

VALIDATION_CONFIDENCE_ZERO == 0
VALIDATION_CONFIDENCE_MODERATE == 50
VALIDATION_CONFIDENCE_GOOD == 70
VALIDATION_CONFIDENCE_STRING == 80
VALIDATION_CONFIDENCE_NUMBER == 90
VALIDATION_CONFIDENCE_PERFECT == 100
HIGH_CONFIDENCE_THRESHOLD == 90

\* fieldSchema.safeParse(value).success
safeParse(fieldSchema, value) ==
  CASE fieldSchema.kind = "string" -> value.t = "string"
    [] fieldSchema.kind = "regex" ->
         value.t = "string" /\ PatternMatches(fieldSchema.pattern, value.s)
    [] fieldSchema.kind = "number" -> value.t = "number"
    [] fieldSchema.kind = "boolean" -> value.t = "boolean"
    [] fieldSchema.kind = "enum" -> value.t = "string" /\ value.s \in TaxClassifications
    [] fieldSchema.kind = "array" -> value.t = "array"
    [] OTHER -> value.t \in {"undefined", "string"}

validateDateFormat(value) == value.t = "string" /\ ParsedDate(value.s) # None
validateTaxId(value) == value.t = "string" /\ value.s \in {"12-3456789", "123456789"}
validateAccountNumber(value) == value.t = "string" /\ value.s = "****1234"

\* the branches are chosen by fieldName.includes(...); no field name of the
\* schemas contains 'routing_number', 'email' or 'phone'
calculateValidationConfidence(fieldName, value) ==
  IF value.t \in {"null", "undefined"} \/ value = JsStr("") THEN VALIDATION_CONFIDENCE_ZERO
  ELSE IF fieldName \in {"statement_start_date", "statement_end_date", "date_of_birth",
                         "expiration_date", "policy_effective_date",
                         "policy_expiration_date", "filing_date"}
    THEN IF validateDateFormat(value)
           THEN VALIDATION_CONFIDENCE_PERFECT ELSE VALIDATION_CONFIDENCE_MODERATE
  ELSE IF fieldName = "ein_or_ssn"
    THEN IF validateTaxId(value)
           THEN VALIDATION_CONFIDENCE_PERFECT ELSE VALIDATION_CONFIDENCE_MODERATE
  ELSE IF fieldName = "account_number_masked"
    THEN IF validateAccountNumber(value)
           THEN VALIDATION_CONFIDENCE_PERFECT ELSE VALIDATION_CONFIDENCE_GOOD
  ELSE IF value.t = "string" THEN VALIDATION_CONFIDENCE_STRING
  ELSE IF value.t \in {"number", "boolean"} THEN VALIDATION_CONFIDENCE_NUMBER
  ELSE VALIDATION_CONFIDENCE_MODERATE

validateField(documentType, fieldName, value) ==
  IF getSchema(documentType) = None
    THEN [passed |-> FALSE, error |-> Some("Unknown document type"),
          confidence |-> VALIDATION_CONFIDENCE_ZERO]
  ELSE IF shapeOf(documentType, fieldName) = None
    THEN [passed |-> FALSE, error |-> Some("Unknown field"),
          confidence |-> VALIDATION_CONFIDENCE_ZERO]
  ELSE IF safeParse(shapeOf(documentType, fieldName)[1], value)
    THEN [passed |-> TRUE, error |-> None,
          confidence |-> calculateValidationConfidence(fieldName, value)]
  ELSE [passed |-> FALSE, error |-> Some("Validation failed"),
        confidence |-> VALIDATION_CONFIDENCE_ZERO]

getValidationStatus(validationResult) ==
  IF validationResult.passed /\ validationResult.confidence >= HIGH_CONFIDENCE_THRESHOLD
    THEN "passed"
  ELSE IF ~validationResult.passed THEN "failed"
  ELSE "passed"

-----------------------------------------------------------------------------
(* ExtractionService *)

LEARNING_EXAMPLE_MIN_CONFIDENCE == 50
LLM_CONFIDENCE_EMPTY_STRING == 10
LLM_CONFIDENCE_SHORT_STRING == 30
LLM_CONFIDENCE_MEDIUM_STRING == 60
LLM_CONFIDENCE_LONG_STRING == 85
LLM_CONFIDENCE_NUMBER == 90
LLM_CONFIDENCE_BOOLEAN == 95
LLM_CONFIDENCE_EMPTY_ARRAY == 20
LLM_CONFIDENCE_FILLED_ARRAY == 80
LLM_CONFIDENCE_DEFAULT == 70
FIELD_CLARITY_CONFIDENCE_NO_KEYWORDS == 30
FIELD_CLARITY_CONFIDENCE_FEW_KEYWORDS == 50
FIELD_CLARITY_CONFIDENCE_SOME_KEYWORDS == 70
FIELD_CLARITY_CONFIDENCE_MOST_KEYWORDS == 95
FIELD_CLARITY_CONFIDENCE_DEFAULT == 50

\* ExtractionService.calculateLLMConfidence(value)
calculateFieldLLMConfidence(value) ==
  CASE value.t \in {"null", "undefined"} -> 0
    [] value.t = "string" ->
         IF TrimLength(value.s) = 0 THEN LLM_CONFIDENCE_EMPTY_STRING
         ELSE IF TrimLength(value.s) < 2 THEN LLM_CONFIDENCE_SHORT_STRING
         ELSE IF TrimLength(value.s) < 5 THEN LLM_CONFIDENCE_MEDIUM_STRING
         ELSE LLM_CONFIDENCE_LONG_STRING
    [] value.t = "number" -> LLM_CONFIDENCE_NUMBER
    [] value.t = "boolean" -> LLM_CONFIDENCE_BOOLEAN
    [] value.t = "array" ->
         IF value.a = <<>> THEN LLM_CONFIDENCE_EMPTY_ARRAY ELSE LLM_CONFIDENCE_FILLED_ARRAY
    [] OTHER -> LLM_CONFIDENCE_DEFAULT

\* ExtractionService.calculateClarityConfidence(text, keywords): matchRate is
\* matchCount / keywords.length, compared with 0, 0.3 and 0.6
calculateFieldClarityConfidence(text, keywords) ==
  IF keywords = {} THEN FIELD_CLARITY_CONFIDENCE_DEFAULT
  ELSE LET matchCount == Cardinality(keywords \cap text.kws)
           total == Cardinality(keywords)
       IN IF matchCount = 0 THEN FIELD_CLARITY_CONFIDENCE_NO_KEYWORDS
          ELSE IF 10 * matchCount < 3 * total THEN FIELD_CLARITY_CONFIDENCE_FEW_KEYWORDS
          ELSE IF 10 * matchCount < 6 * total THEN FIELD_CLARITY_CONFIDENCE_SOME_KEYWORDS
          ELSE FIELD_CLARITY_CONFIDENCE_MOST_KEYWORDS

\* value ?? null
nullish(value) == IF value.t = "undefined" THEN JsNull ELSE value

\* reasons.length > 0 ? reasons : undefined
reasonsOrUndefined(reasons) ==
  IF Len(reasons) > 0 THEN [present |-> TRUE, list |-> reasons] ELSE [present |-> FALSE]

\* the Field the loop of extract pushes for fieldName
buildField(documentType, fieldName, extractedData, text, threshold) ==
  LET value == GetProperty(extractedData, fieldName)
      llmConfidence == calculateFieldLLMConfidence(value)
      validationResult == validateField(documentType, fieldName, value)
      validationConfidence == validationResult.confidence
      clarityConfidence == calculateFieldClarityConfidence(text, getFieldKeywords(fieldName))
      finalConfidence == llmConfidence * validationConfidence * clarityConfidence
      confidenceBreakdown ==
        [llm_confidence |-> llmConfidence,
         validation_confidence |-> validationConfidence,
         clarity_confidence |-> clarityConfidence,
         final_confidence |-> finalConfidence]
  IN [name |-> fieldName,
      value |-> nullish(value),
      llm_confidence |-> llmConfidence,
      validation_confidence |-> validationConfidence,
      clarity_confidence |-> clarityConfidence,
      final_confidence |-> finalConfidence,
      validation_status |-> getValidationStatus(validationResult),
      validation_error |-> validationResult.error,
      reasons |-> reasonsOrUndefined(
                    generateLowConfidenceReasons(confidenceBreakdown, threshold))]

RECURSIVE SumOf(_, _)
\* fields.reduce((sum, f) => sum + f[key], 0)
SumOf(fields, key) ==
  IF fields = <<>> THEN 0 ELSE fields[1][key] + SumOf(Tail(fields), key)

\* the ExtractionModel extract returns.  The averages over the fields are kept
\* as sums with the number of fields: overall_confidence is sum / count.
extractionResult(documentType, extractedData, text, threshold) ==
  LET fieldNames == getFieldNames(documentType)
      fields == [i \in DOMAIN fieldNames |->
                   buildField(documentType, fieldNames[i], extractedData, text, threshold)]
      sums == [llm_confidence |-> SumOf(fields, "llm_confidence"),
               validation_confidence |-> SumOf(fields, "validation_confidence"),
               clarity_confidence |-> SumOf(fields, "clarity_confidence"),
               final_confidence |-> SumOf(fields, "final_confidence")]
  IN [kind |-> "ok",
      fields |-> fields,
      overall_confidence |-> [sum |-> sums.final_confidence, count |-> Len(fieldNames)],
      schema_type |-> documentType,
      reasons |-> reasonsOrUndefined(lowConfidenceReasons(sums, threshold, Len(fieldNames)))]

\* extractionResult.overall_confidence < threshold
overallBelow(extraction, threshold) ==
  extraction.overall_confidence.sum < extraction.overall_confidence.count * ToFinal(threshold)

\* the document types extract is called with: three types with a schema, and a
\* type outside the enum, which has none
ExtractTypes == {"W-9", "Unknown", "Bank Statement", "Driver License"}

\* an empty text, a W-9 reading 'name ssn signature signed sign here', and a
\* bank statement reading 'account holder name account number period from
\* beginning to opening closing'; kws are the field keywords that occur in the
\* text
ExtractTexts ==
  {Text(TRUE, {}),
   Text(FALSE, {"name", "ssn", "signature", "signed", "sign here"}),
   Text(FALSE, {"account holder", "name", "account number", "number", "period",
                "from", "beginning", "to", "opening", "closing"})}

\* a reply that fills every field of the schema with a valid value
BaseReply(documentType) ==
  CASE documentType = "W-9" ->
         ("legal_name" :> JsStr("Acme Corp")) @@ ("ein_or_ssn" :> JsStr("12-3456789")) @@
         ("business_address" :> JsStr("Acme Corp")) @@
         ("tax_classification" :> JsStr("LLC")) @@ ("signature_present" :> JsBool(TRUE))
    [] documentType = "Bank Statement" ->
         ("account_holder_name" :> JsStr("Acme Corp")) @@
         ("account_number_masked" :> JsStr("****1234")) @@
         ("statement_start_date" :> JsStr("2024-01-31")) @@
         ("statement_end_date" :> JsStr("2024-01-31")) @@
         ("starting_balance" :> JsNum(0)) @@ ("ending_balance" :> JsNum(1250))
    [] OTHER -> ("notes" :> JsStr("Acme Corp"))

\* the values the LLM may give to a field: values of every JSON type, and the
\* strings that the coercion of the field's kind converts
FieldValues(fieldSchema) ==
  {JsNull, JsStr(""), JsStr("A"), JsStr("Acme Corp"), JsNum(0), JsBool(TRUE),
   JsArr(<<>>), JsArr(<<"general">>), JsObj(("text" :> JsStr("A")))}
  \cup (CASE fieldSchema.kind = "number" -> {JsStr("1,234"), JsNum(1250)}
          [] fieldSchema.kind = "boolean" -> {JsStr("yes")}
          [] fieldSchema.kind = "enum" -> {JsStr("LLC")}
          [] fieldSchema.pattern = "tax_id" -> {JsStr("12-3456789"), JsStr("123456789")}
          [] fieldSchema.pattern = "iso_date" -> {JsStr("2024-01-31"), JsStr("January 31, 2024")}
          [] fieldSchema.pattern = "masked_account" -> {JsStr("****1234")}
          [] OTHER -> {})

\* the first field of the schema alone, as an object
FirstFieldOnly(documentType) ==
  LET name == getFieldNames(documentType)[1]
  IN (name :> BaseReply(documentType)[name])

\* the objects the LLM may reply: the base reply, with one field changed or left
\* out, with a key that is no schema field, or nearly empty with a key __proto__
ExtractionObjects(documentType) ==
  LET base == BaseReply(documentType)
      shape == getSchema(documentType)[1]
  IN {base}
     \cup UNION {{[k \in DOMAIN base |-> IF k = shape[i].name THEN v ELSE base[k]] :
                     v \in FieldValues(shape[i])} : i \in DOMAIN shape}
     \cup {[k \in DOMAIN base \ {shape[i].name} |-> base[k]] : i \in DOMAIN shape}
     \cup {base @@ ("comment" :> JsStr("Acme Corp"))}
     \cup {("comment" :> JsStr("A")) @@ ("__proto__" :> v) :
             v \in {JsNull, JsStr("A"), JsObj(FirstFieldOnly(documentType))}}

\* the content of the reply of the extraction request: text that is no JSON, or
\* a JSON value
ExtractionContents(documentType) ==
  {Garbage}
  \cup {[kind |-> "json", value |-> v] : v \in {JsNull, JsNum(5)}}
  \cup {[kind |-> "json", value |-> JsObj(o)] : o \in ExtractionObjects(documentType)}

\* the thresholds a classification is scored with
ScoreThresholds == {50, 70, 90}

ExtractionError(e) == [kind |-> "error", error |-> e]

\* extract(ocrText, documentType, ...) up to the chat request: the schema, the
\* threshold and the learning example
StartExtract(text, documentType) ==
  /\ ext.pc = "idle"
  /\ IF getSchema(documentType) = None
       THEN ext' = [ext EXCEPT !.pc = "done", !.documentType = documentType,
                               !.text = text, !.result = ExtractionError("schema")]
       ELSE \E threshold \in getThreshold(settings, documentType),
               l \in retrieveLearningExample(store, documentType,
                                             ToFinal(LEARNING_EXAMPLE_MIN_CONFIDENCE)) :
              IF l.kind = "thrown"
                THEN ext' = [ext EXCEPT !.pc = "done", !.documentType = documentType,
                                        !.text = text, !.threshold = threshold,
                                        !.result = ExtractionError("learning")]
                ELSE ext' = [ext EXCEPT !.pc = "chat", !.documentType = documentType,
                                        !.text = text, !.threshold = threshold,
                                        !.usedExample = (l.kind = "example")]
  /\ UNCHANGED <<settings, store, req, doc, met>>
  /\ UNCHANGED classifyVars
  /\ UNCHANGED laterVars

\* Object.entries(value) of coerceAllFields: it throws for null; a number has
\* no entries
entriesOf(value) ==
  CASE value.t = "object" -> Returned(value.o)
    [] value.t \in {"null", "undefined"} -> Thrown
    [] OTHER -> Returned([k \in {} |-> JsNull])

\* extract from the reply of the chat request to its return
FinishExtract ==
  /\ ext.pc = "chat"
  /\ \/ ext' = [ext EXCEPT !.pc = "done", !.result = ExtractionError("chat")]
     \/ \E content \in ExtractionContents(ext.documentType) :
          IF content.kind = "garbage"
            THEN ext' = [ext EXCEPT !.pc = "done", !.result = ExtractionError("parse")]
            ELSE LET entries == entriesOf(content.value)
                 IN IF ~entries.ok
                      THEN ext' = [ext EXCEPT !.pc = "done",
                                              !.result = ExtractionError("entries")]
                      ELSE ext' = [ext EXCEPT
                             !.pc = "done",
                             !.reply = entries.v,
                             !.result = extractionResult(
                                ext.documentType,
                                coerceAllFields(ext.documentType, entries.v),
                                ext.text, ext.threshold)]
  /\ UNCHANGED <<settings, store, req, doc, met>>
  /\ UNCHANGED classifyVars
  /\ UNCHANGED laterVars

\* calculateClassificationConfidence applied to a reply of the LLM
ScoreClassification(modelOutput, text, threshold) ==
  /\ ext.pc = "idle"
  /\ ext' = [ext EXCEPT
       !.pc = "scored",
       !.modelOutput = modelOutput,
       !.scored = calculateClassificationConfidence(
                    modelOutput, text, modelOutput.document_type, threshold),
       !.threshold = threshold]
  /\ UNCHANGED <<settings, store, req, doc, met>>
  /\ UNCHANGED classifyVars
  /\ UNCHANGED laterVars

NextExtract ==
  \/ \E text \in ExtractTexts, documentType \in ExtractTypes : StartExtract(text, documentType)
  \/ FinishExtract
  \/ \E modelOutput \in LlmContents \ {Garbage}, text \in OcrTexts \cup {Text(TRUE, {})},
        threshold \in ScoreThresholds :
       ScoreClassification(modelOutput, text, threshold)

SpecExtract == Init /\ [][NextExtract]_vars

-----------------------------------------------------------------------------
(* Threshold updates: ClassificationService.setThreshold and PUT /settings *)

MIN_THRESHOLD == 50
MAX_THRESHOLD == 100
MIN_THRESHOLD_VALUE == 0
MAX_THRESHOLD_VALUE == 100

\* the types whose threshold is updated: one with a row of its own value, one
\* without a row, and Unknown, for which no row is seeded
SettingTypes == {"Bank Statement", "W-9", "Unknown"}

\* the thresholds setThreshold is called with, as percents: 0.4, 0.5, 1.0, 1.1
SetThresholdValues == {40, 50, 100, 110}

\* the values of a PUT /settings body: the numbers -0.1, 0, 0.2, 1.0 and 1.1 as
\* percents, and the string "0.9"
PutValues == {JsNum(0 - 10), JsNum(0), JsNum(20), JsNum(100), JsNum(110), JsStr("0.9")}

Entry(key, value) == [key |-> key, value |-> value]

\* Object.entries(thresholds) of the bodies of PUT /settings: one or two keys
PutBodies ==
  {<<Entry(k, v)>> : k \in SettingTypes, v \in PutValues}
  \cup {<<Entry("Unknown", v), Entry("Bank Statement", w)>> : v, w \in PutValues}
  \cup {<<Entry("Bank Statement", v), Entry("W-9", w)>> : v, w \in PutValues}

isValidThresholdValue(value) ==
  value.t = "number" /\ value.n >= MIN_THRESHOLD_VALUE /\ value.n <= MAX_THRESHOLD_VALUE

formatKeyForDatabase(userKey) == buildThresholdKey(userKey)

\* INSERT OR REPLACE INTO settings (key, value)
insertOrReplace(table, key, value) == [table EXCEPT ![key] = Some(value)]

\* UPDATE settings SET value = ? WHERE key = ?: a key without a row changes nothing
updateWhere(table, key, value) ==
  IF table[key] # None THEN [table EXCEPT ![key] = Some(value)] ELSE table

RECURSIVE updateAll(_, _)
\* the loop of dbRun calls of PUT /settings over the entries
updateAll(table, entries) ==
  IF entries = <<>> THEN table
  ELSE updateAll(updateWhere(table, formatKeyForDatabase(entries[1].key), entries[1].value.n),
                 Tail(entries))

Request(kind, entries, status, before) ==
  [kind |-> kind, entries |-> entries, status |-> status, before |-> before]

\* ClassificationService.setThreshold(type, threshold); the write may fail
setThreshold(type, threshold) ==
  /\ IF threshold < MIN_THRESHOLD \/ threshold > MAX_THRESHOLD
       THEN /\ req' = Request("setThreshold", <<Entry(type, JsNum(threshold))>>,
                              "rejected", settings)
            /\ UNCHANGED settings
       ELSE \/ /\ settings' = insertOrReplace(settings, buildThresholdKey(type), threshold)
               /\ req' = Request("setThreshold", <<Entry(type, JsNum(threshold))>>,
                                 "ok", settings)
            \/ /\ req' = Request("setThreshold", <<Entry(type, JsNum(threshold))>>,
                                 "error", settings)
               /\ UNCHANGED settings
  /\ UNCHANGED <<store, ext, doc, met>>
  /\ UNCHANGED classifyVars
  /\ UNCHANGED laterVars

\* router.put('/') of the settings routes with the entries of req.body.thresholds;
\* a failing dbRun ends the loop after n updates with status 500
PutSettings(entries) ==
  /\ IF \E i \in DOMAIN entries : ~isValidThresholdValue(entries[i].value)
       THEN /\ req' = Request("put", entries, "rejected", settings)
            /\ UNCHANGED settings
       ELSE \/ /\ settings' = updateAll(settings, entries)
               /\ req' = Request("put", entries, "ok", settings)
            \/ \E n \in 0..(Len(entries) - 1) :
                 /\ settings' = updateAll(settings, SubSeq(entries, 1, n))
                 /\ req' = Request("put", entries, "error", settings)
  /\ UNCHANGED <<store, ext, doc, met>>
  /\ UNCHANGED classifyVars
  /\ UNCHANGED laterVars

NextSettings ==
  \/ \E type \in SettingTypes, threshold \in SetThresholdValues : setThreshold(type, threshold)
  \/ \E entries \in PutBodies : PutSettings(entries)

SpecSettings == Init /\ [][NextSettings]_vars

-----------------------------------------------------------------------------
(* The upload pipeline (processDocument) and the lazy extraction of GET /docs/:id *)

\* the values of docs.processing_status (DocumentStatusEnum)
PROCESSING_STATUS_PENDING == "pending"
PROCESSING_STATUS_OCR_IN_PROGRESS == "ocr_in_progress"
PROCESSING_STATUS_CLASSIFICATION_IN_PROGRESS == "classification_in_progress"
PROCESSING_STATUS_EXTRACTION_IN_PROGRESS == "extraction_in_progress"
PROCESSING_STATUS_NEEDS_REVIEW == "needs_review"
PROCESSING_STATUS_COMPLETED == "completed"
PROCESSING_STATUS_ERROR == "error"

\* the texts OCR reads: a bank statement with every classification keyword and
\* most field keywords, and an empty page
PipelineTexts ==
  {Text(FALSE, {"account", "balance", "statement", "bank", "transaction",
                "account holder", "name", "account number", "number", "period",
                "from", "beginning", "to", "opening", "closing"}),
   Text(TRUE, {})}

\* the answers classify settles on in the pipeline
PipelineAnswers ==
  {Answer(t, c, Some("seen")) : t \in {"Bank Statement", "Unknown", "Driver License"},
                                c \in {Some(65), Some(95)}}

\* what classificationService.classify(ocrText, documentId) gives: an error, or
\* the ClassificationModel of an answer scored against the threshold of its type
ClassifyOutcomes(text) ==
  {ClassifyError("chat")}
  \cup UNION {{classificationResult(
                  a, calculateClassificationConfidence(a, text, a.document_type, threshold),
                  FALSE, threshold) :
                threshold \in getThreshold(settings, a.document_type)} :
              a \in PipelineAnswers}

\* what extractionService.extract(ocrText, type, ...) gives: an error, or the
\* ExtractionModel of a complete or an empty reply
ExtractOutcomes(text, type) ==
  {ExtractionError("chat")}
  \cup (IF getSchema(type) = None THEN {}
        ELSE UNION {{extractionResult(type, coerceAllFields(type, o), text, threshold) :
                       o \in {BaseReply(type), [k \in {} |-> JsNull]}} :
                    threshold \in getThreshold(settings, type)})

\* the docs row of the document and the position of the request working on it;
\* written lists the values of processing_status in the order they were written
Document(at, status, written, text, type, classification, extraction, original, threshold) ==
  [pc |-> at, status |-> status, written |-> written, text |-> text, type |-> type,
   classification |-> classification, extraction |-> extraction,
   original |-> original, threshold |-> threshold, failure |-> ""]

\* UPDATE docs SET processing_status = ? succeeded
writeStatus(d, status) ==
  [d EXCEPT !.status = status, !.written = Append(d.written, status)]

\* an error handler that leaves the status as it is
catchLeavingStatus(d, endPc, cause) == {[d EXCEPT !.pc = endPc, !.failure = cause]}

\* the catch block after the failure of cause: the error status is written, or
\* that write fails as well and the rejection leaves the handler
catchError(d, endPc, cause) ==
  {[writeStatus(d, PROCESSING_STATUS_ERROR) EXCEPT !.pc = endPc, !.failure = cause],
   [d EXCEPT !.pc = "rejected", !.failure = cause]}

\* POST /upload: the docs row is inserted and processDocument is started
Upload ==
  /\ doc.pc = "none"
  /\ doc' = Document("uploaded", PROCESSING_STATUS_PENDING, <<PROCESSING_STATUS_PENDING>>,
                     Text(TRUE, {}), None, NoResult, [kind |-> "none"], "", 0)
  /\ UNCHANGED <<settings, store, ext, req, met>>
  /\ UNCHANGED classifyVars
  /\ UNCHANGED laterVars

\* processDocument: the first status update
BeginOcr ==
  /\ doc.pc = "uploaded"
  /\ \/ doc' = [writeStatus(doc, PROCESSING_STATUS_OCR_IN_PROGRESS) EXCEPT !.pc = "ocr"]
     \/ doc' \in catchError(doc, "finished", "update")
  /\ UNCHANGED <<settings, store, ext, req, met>>
  /\ UNCHANGED classifyVars
  /\ UNCHANGED laterVars

\* processDocument: rendering, OCR and the update that stores ocr_json
RunOcr ==
  /\ doc.pc = "ocr"
  /\ \/ \E text \in PipelineTexts :
          doc' = [writeStatus(doc, PROCESSING_STATUS_CLASSIFICATION_IN_PROGRESS)
                    EXCEPT !.pc = "classify", !.text = text]
     \/ \E cause \in {"ocr", "update"} : doc' \in catchError(doc, "finished", cause)
  /\ UNCHANGED <<settings, store, ext, req, met>>
  /\ UNCHANGED classifyVars
  /\ UNCHANGED laterVars

\* processDocument: classify and the update that stores type and confidence
RunClassify ==
  /\ doc.pc = "classify"
  /\ \E c \in ClassifyOutcomes(doc.text) :
       IF c.kind = "error"
         THEN doc' \in catchError(doc, "finished", "classification")
         ELSE \/ doc' = [writeStatus(doc, PROCESSING_STATUS_EXTRACTION_IN_PROGRESS)
                           EXCEPT !.pc = "extract", !.type = Some(c.predicted_type),
                                  !.classification = c]
              \/ doc' \in catchError(doc, "finished", "update")
  /\ UNCHANGED <<settings, store, ext, req, met>>
  /\ UNCHANGED classifyVars
  /\ UNCHANGED laterVars

\* processDocument: extract, finalStatus and the last update
RunExtract ==
  /\ doc.pc = "extract"
  /\ \E e \in ExtractOutcomes(doc.text, doc.type[1]) :
       IF e.kind = "error"
         THEN doc' \in catchError(doc, "finished", "extraction")
         ELSE LET finalStatus == IF doc.classification.requires_review
                                   THEN PROCESSING_STATUS_NEEDS_REVIEW
                                   ELSE PROCESSING_STATUS_COMPLETED
              IN \/ doc' = [writeStatus(doc, finalStatus)
                              EXCEPT !.pc = "finished", !.extraction = e]
                 \/ doc' \in catchError(doc, "finished", "update")
  /\ UNCHANGED <<settings, store, ext, req, met>>
  /\ UNCHANGED classifyVars
  /\ UNCHANGED laterVars

\* a docs row that was classified and has its OCR text but no extraction
StoredDocument ==
  /\ doc.pc = "none"
  /\ \E text \in PipelineTexts : \E c \in ClassifyOutcomes(text) :
       /\ c.kind = "ok"
       /\ LET status == IF c.requires_review THEN PROCESSING_STATUS_NEEDS_REVIEW
                                             ELSE PROCESSING_STATUS_COMPLETED
          IN doc' = Document("stored", status, <<>>, text, Some(c.predicted_type), c,
                             [kind |-> "none"], "", 0)
  /\ UNCHANGED <<settings, store, ext, req, met>>
  /\ UNCHANGED classifyVars
  /\ UNCHANGED laterVars

\* document.type && (status is completed or needs_review) && !document.extraction
\* && document.ocr_json
shouldTriggerExtraction(d) ==
  /\ d.type # None
  /\ d.status \in {PROCESSING_STATUS_COMPLETED, PROCESSING_STATUS_NEEDS_REVIEW}
  /\ d.extraction.kind = "none"

\* GET /docs/:id up to the extract call
GetDocument ==
  /\ doc.pc = "stored"
  /\ shouldTriggerExtraction(doc)
  /\ \/ doc' = [writeStatus(doc, PROCESSING_STATUS_EXTRACTION_IN_PROGRESS)
                  EXCEPT !.pc = "lazy", !.original = doc.status]
     \/ doc' \in catchError([doc EXCEPT !.original = doc.status], "answered", "update")
  /\ UNCHANGED <<settings, store, ext, req, met>>
  /\ UNCHANGED classifyVars
  /\ UNCHANGED laterVars

\* GET /docs/:id from the extract call to the last update
GetDocumentExtract ==
  /\ doc.pc = "lazy"
  /\ \E e \in ExtractOutcomes(doc.text, doc.type[1]),
        threshold \in getThreshold(settings, doc.type[1]) :
       IF e.kind = "error"
         THEN doc' \in catchError(doc, "answered", "extraction")
         ELSE LET finalStatus ==
                    IF overallBelow(e, threshold) THEN PROCESSING_STATUS_NEEDS_REVIEW
                    ELSE IF doc.original = PROCESSING_STATUS_NEEDS_REVIEW
                      THEN PROCESSING_STATUS_NEEDS_REVIEW
                    ELSE PROCESSING_STATUS_COMPLETED
              IN \/ doc' = [writeStatus(doc, finalStatus)
                              EXCEPT !.pc = "answered", !.extraction = e,
                                     !.threshold = threshold]
                 \/ doc' \in catchError(doc, "answered", "update")
  /\ UNCHANGED <<settings, store, ext, req, met>>
  /\ UNCHANGED classifyVars
  /\ UNCHANGED laterVars

NextPipeline ==
  \/ Upload
  \/ BeginOcr
  \/ RunOcr
  \/ RunClassify
  \/ RunExtract
  \/ StoredDocument
  \/ GetDocument
  \/ GetDocumentExtract

SpecPipeline == Init /\ [][NextPipeline]_vars

-----------------------------------------------------------------------------
(* MetricStore and the correction request *)

CACHE_TTL_MS == 10000

\* the clock advances by half the time to live
TickMs == CACHE_TTL_MS \div 2

MetricCalls == 1..MaxCalls

\* a snapshot: at is the number of corrections in the tables when it was
\* calculated; empty is the snapshot of a calculation that failed
Snapshot(at, empty) == [at |-> at, empty |-> empty]

Cached(snapshot, timestamp) == [snapshot |-> snapshot, timestamp |-> timestamp]

\* a getMetrics call that has not been made; completedAtStart is the number of
\* correction requests that had completed when the call was made
NoCall == [pc |-> "idle", completedAtStart |-> 0, snapshot |-> Snapshot(0, FALSE)]

isCacheValid(cache, now) ==
  IF cache = None THEN FALSE ELSE now - cache[1].timestamp < CACHE_TTL_MS

\* getMetrics up to the await: the cached snapshot is returned, or the
\* calculation starts
GetMetricsStart(c) ==
  /\ met.calls[c].pc = "idle"
  /\ IF isCacheValid(met.cache, met.now)
       THEN met' = [met EXCEPT !.calls[c] =
                      [pc |-> "done", completedAtStart |-> met.completed,
                       snapshot |-> met.cache[1].snapshot]]
       ELSE met' = [met EXCEPT !.calls[c] =
                      [pc |-> "calculating", completedAtStart |-> met.completed,
                       snapshot |-> Snapshot(0, FALSE)]]
  /\ UNCHANGED <<settings, store, ext, req, doc>>
  /\ UNCHANGED classifyVars
  /\ UNCHANGED laterVars

\* calculateMetrics reads the tables; a failing query gives the empty snapshot
CalculateMetrics(c) ==
  /\ met.calls[c].pc = "calculating"
  /\ \E empty \in BOOLEAN :
       met' = [met EXCEPT !.calls[c].pc = "calculated",
                          !.calls[c].snapshot = Snapshot(met.corrections, empty)]
  /\ UNCHANGED <<settings, store, ext, req, doc>>
  /\ UNCHANGED classifyVars
  /\ UNCHANGED laterVars

\* getMetrics after the await: the snapshot is cached with the time of now and
\* returned
GetMetricsFinish(c) ==
  /\ met.calls[c].pc = "calculated"
  /\ met' = [met EXCEPT !.calls[c].pc = "done",
                        !.cache = Some(Cached(met.calls[c].snapshot, met.now))]
  /\ UNCHANGED <<settings, store, ext, req, doc>>
  /\ UNCHANGED classifyVars
  /\ UNCHANGED laterVars

\* POST /:id/correct: the correction is inserted
CorrectInsert ==
  /\ met.correcting = "idle"
  /\ met.corrections < MaxCorrections
  /\ met' = [met EXCEPT !.correcting = "inserted", !.corrections = @ + 1]
  /\ UNCHANGED <<settings, store, ext, req, doc>>
  /\ UNCHANGED classifyVars
  /\ UNCHANGED laterVars

\* POST /:id/correct: metricStore.invalidateCache()
CorrectInvalidate ==
  /\ met.correcting = "inserted"
  /\ met' = [met EXCEPT !.correcting = "saving", !.cache = None]
  /\ UNCHANGED <<settings, store, ext, req, doc>>
  /\ UNCHANGED classifyVars
  /\ UNCHANGED laterVars

\* POST /:id/correct: saveMetricsSnapshot has settled and the response is sent
CorrectFinish ==
  /\ met.correcting = "saving"
  /\ met' = [met EXCEPT !.correcting = "idle", !.completed = @ + 1]
  /\ UNCHANGED <<settings, store, ext, req, doc>>
  /\ UNCHANGED classifyVars
  /\ UNCHANGED laterVars

\* Date.now() advances
Tick ==
  /\ met.now < MaxTicks * TickMs
  /\ met' = [met EXCEPT !.now = @ + TickMs]
  /\ UNCHANGED <<settings, store, ext, req, doc>>
  /\ UNCHANGED classifyVars
  /\ UNCHANGED laterVars

NextMetrics ==
  \/ \E c \in MetricCalls : GetMetricsStart(c)
  \/ \E c \in MetricCalls : CalculateMetrics(c)
  \/ \E c \in MetricCalls : GetMetricsFinish(c)
  \/ CorrectInsert
  \/ CorrectInvalidate
  \/ CorrectFinish
  \/ Tick

SpecMetrics == Init /\ [][NextMetrics]_vars

-----------------------------------------------------------------------------
(* TypeCoercionService.coerceToNumber on the characters of a string *)

\* a string is the sequence of its characters here
Digits == {"0", "1", "2", "3", "4", "5", "6", "7", "8", "9"}

DigitValue(c) ==
  CASE c = "0" -> 0 [] c = "1" -> 1 [] c = "2" -> 2 [] c = "3" -> 3 [] c = "4" -> 4
    [] c = "5" -> 5 [] c = "6" -> 6 [] c = "7" -> 7 [] c = "8" -> 8 [] c = "9" -> 9

\* /[$\u20AC\u00A3\u00A5\s]/: the dollar, euro, pound and yen signs and the
\* whitespace; the three signs outside ASCII are written by their names
CurrencyOrSpace == {"$", "euro", "pound", "yen", " "}

\* a decimal number: mantissa m with e digits after the point, without
\* trailing zeros after the point
RECURSIVE Decimal(_, _)
Decimal(m, e) ==
  IF e > 0 /\ m % 10 = 0 THEN Decimal(m \div 10, e - 1) ELSE [m |-> m, e |-> e]

Negated(d) == [m |-> 0 - d.m, e |-> d.e]

NaN == [nan |-> TRUE]

RECURSIVE DigitsToInt(_)
DigitsToInt(ds) ==
  IF ds = <<>> THEN 0
  ELSE 10 * DigitsToInt(SubSeq(ds, 1, Len(ds) - 1)) + DigitValue(ds[Len(ds)])

\* String.prototype.trim
RECURSIVE trim(_)
trim(s) ==
  IF s = <<>> THEN s
  ELSE IF Head(s) = " " THEN trim(Tail(s))
  ELSE IF s[Len(s)] = " " THEN trim(SubSeq(s, 1, Len(s) - 1))
  ELSE s

includes(s, c) == \E i \in DOMAIN s : s[i] = c

\* String.prototype.lastIndexOf: zero-based, -1 when c does not occur
lastIndexOf(s, c) ==
  IF includes(s, c)
    THEN (CHOOSE i \in DOMAIN s : s[i] = c /\ \A j \in DOMAIN s : s[j] = c => j <= i) - 1
    ELSE 0 - 1

\* String.prototype.substring(from)
substring(s, from) == SubSeq(s, Min(from, Len(s)) + 1, Len(s))

\* s.replace(/c/g, '') for the characters of a set
removeAll(s, cs) == SelectSeq(s, LAMBDA c : c \notin cs)

\* s.replace(c, d): the first occurrence only
replaceFirst(s, c, d) ==
  IF ~includes(s, c) THEN s
  ELSE LET i == CHOOSE k \in DOMAIN s : s[k] = c /\ \A j \in 1..(k - 1) : s[j] # c
       IN [s EXCEPT ![i] = d]

\* s.split(c)
RECURSIVE split(_, _)
split(s, c) ==
  IF ~includes(s, c) THEN <<s>>
  ELSE LET i == lastIndexOf(s, c) + 1
       IN Append(split(SubSeq(s, 1, i - 1), c), SubSeq(s, i + 1, Len(s)))

\* the longest prefix of digits
RECURSIVE digitPrefix(_)
digitPrefix(s) ==
  IF s = <<>> \/ Head(s) \notin Digits THEN <<>>
  ELSE <<Head(s)>> \o digitPrefix(Tail(s))

\* parseFloat: the longest prefix that is a decimal literal (sign, digits, point,
\* digits; the strings of the model hold no exponent), NaN when it has no digit
parseFloat(s) ==
  LET signed == s # <<>> /\ Head(s) \in {"-", "+"}
      body == IF signed THEN Tail(s) ELSE s
      int == digitPrefix(body)
      rest == SubSeq(body, Len(int) + 1, Len(body))
      frac == IF rest # <<>> /\ Head(rest) = "." THEN digitPrefix(Tail(rest)) ELSE <<>>
      d == Decimal(DigitsToInt(int \o frac), Len(frac))
  IN IF Len(int) + Len(frac) = 0 THEN NaN
     ELSE IF signed /\ Head(s) = "-" THEN Negated(d) ELSE d

MAX_DECIMAL_SEPARATOR_LENGTH == 2
MIN_DECIMAL_SEPARATOR_LENGTH == 1
EUROPEAN_THOUSANDS_DIGITS == 3

\* the branch on the separators: the string after the separators were rewritten.
\* hasComma, hasPeriod and the two indexes were taken from the trimmed string,
\* before the currency symbols and the whitespace were removed from cleaned.
rewriteSeparators(cleaned, hasComma, hasPeriod, lastCommaIndex, lastPeriodIndex) ==
  IF hasComma /\ hasPeriod
    THEN IF lastCommaIndex > lastPeriodIndex
           THEN replaceFirst(removeAll(cleaned, {"."}), ",", ".")
           ELSE removeAll(cleaned, {","})
  ELSE IF hasComma /\ ~hasPeriod
    THEN LET afterComma == substring(cleaned, lastCommaIndex + 1)
         IN IF Len(afterComma) <= MAX_DECIMAL_SEPARATOR_LENGTH
              THEN replaceFirst(cleaned, ",", ".")
              ELSE removeAll(cleaned, {","})
  ELSE IF hasPeriod /\ ~hasComma
    THEN LET afterLastPeriod == substring(cleaned, lastPeriodIndex + 1)
             periodCount == Cardinality({i \in DOMAIN cleaned : cleaned[i] = "."})
             parts == split(cleaned, ".")
             allPartsThreeDigits ==
               \A i \in 2..(Len(parts) - 1) : Len(parts[i]) = EUROPEAN_THOUSANDS_DIGITS
             lastPartThreeDigits == Len(afterLastPeriod) = EUROPEAN_THOUSANDS_DIGITS
         IN IF periodCount > 1
              THEN IF /\ allPartsThreeDigits
                      /\ lastPartThreeDigits
                      /\ Len(parts[1]) >= MIN_DECIMAL_SEPARATOR_LENGTH
                      /\ Len(parts[1]) <= EUROPEAN_THOUSANDS_DIGITS
                     THEN removeAll(cleaned, {"."})
                   ELSE IF /\ Len(afterLastPeriod) >= MIN_DECIMAL_SEPARATOR_LENGTH
                           /\ Len(afterLastPeriod) <= EUROPEAN_THOUSANDS_DIGITS
                     THEN LET lastPeriodPos == lastIndexOf(cleaned, ".")
                          IN removeAll(SubSeq(cleaned, 1, lastPeriodPos), {"."})
                               \o <<".">> \o substring(cleaned, lastPeriodPos + 1)
                   ELSE removeAll(cleaned, {"."})
              ELSE cleaned
  ELSE cleaned

\* the part from the parentheses to the return: null for NaN
signAndParse(cleaned) ==
  LET isNegative == cleaned # <<>> /\ Head(cleaned) \in {"-", "("}
      unwrapped == IF cleaned # <<>> /\ Head(cleaned) = "(" /\ cleaned[Len(cleaned)] = ")"
                     THEN SubSeq(cleaned, 2, Len(cleaned) - 1)
                     ELSE cleaned
      unsigned == IF unwrapped # <<>> /\ Head(unwrapped) = "-"
                    THEN Tail(unwrapped) ELSE unwrapped
      parsed == parseFloat(unsigned)
  IN IF parsed = NaN THEN None
     ELSE Some(IF isNegative THEN Negated(parsed) ELSE parsed)

\* coerceToNumber of a string: None for null, Some(decimal) for a number
coerceNumberString(value) ==
  LET trimmed == trim(value)
  IN IF trimmed = <<>> THEN None
     ELSE signAndParse(
            rewriteSeparators(removeAll(trimmed, CurrencyOrSpace),
                              includes(trimmed, ","), includes(trimmed, "."),
                              lastIndexOf(trimmed, ","), lastIndexOf(trimmed, ".")))

\* the strings of the tests of coerceToNumber
NumberTestStrings ==
  {<<"5", ".", "3", "6", "2", "0", ".", "7", "8", "7">>,
   <<"1", "2", "3", "4", ".", "5", "6">>,
   <<"0", ".", "9", "9">>,
   <<"1", ",", "2", "3", "4", ".", "5", "6">>,
   <<"1", ",", "2", "3", "4", ",", "5", "6", "7", ".", "8", "9">>,
   <<"1", "2", "3", "4", ",", "5", "6">>,
   <<"1", ".", "2", "3", "4", ",", "5", "6">>,
   <<"$", "1", ",", "2", "3", "4", ".", "5", "6">>,
   <<"euro", "1", ".", "2", "3", "4", ",", "5", "6">>,
   <<"-", "1", "2", "3", "4", ".", "5", "6">>,
   <<"(", "$", "1", ",", "2", "3", "4", ".", "5", "6", ")">>,
   <<"a", "b", "c">>,
   <<>>}

\* the characters of the other strings given to coerceToNumber
NumberChars == {"1", ",", ".", "-", "(", ")", "$", " "}

RECURSIVE StringsOfLength(_)
StringsOfLength(n) ==
  IF n = 0 THEN {<<>>}
  ELSE {Append(s, c) : s \in StringsOfLength(n - 1), c \in NumberChars}

\* amounts with a currency sign, a thousands separator and no decimals, and an
\* identifier that begins with digits
NumberAmountStrings ==
  {<<"1", ",", "2", "3", "4">>,
   <<"$", "1", ",", "2", "3", "4">>,
   <<"1", ".", "2", "3", "4", ".", "5", "6", "7">>,
   <<"$", "1", ".", "2", "3", "4", ".", "5", "6", "7">>,
   <<"1", "2", "-", "3", "4", "5", "6", "7", "8", "9">>}

NumberStrings ==
  NumberTestStrings \cup NumberAmountStrings \cup UNION {StringsOfLength(n) : n \in 0..MaxNumberLength}

\* one call of coerceToNumber with a string; the function keeps no state, so
\* one call per behaviour shows every call
CoerceToNumber(value) ==
  /\ applied = NoApplication
  /\ applied' = [fn |-> "coerceToNumber", input |-> value,
                 output |-> coerceNumberString(value)]
  /\ UNCHANGED <<settings, store, ext, req, doc, met, cor, lazy>>
  /\ UNCHANGED classifyVars

-----------------------------------------------------------------------------
(* ValidationService.validateRoutingNumber *)

\* /^\d{9}$/
ROUTING_NUMBER_LENGTH == 9

\* the check with every weight 1
validateRoutingNumberUnweighted(value) ==
  LET cleaned == removeAll(value, {" ", "-"})
      digits == [i \in DOMAIN cleaned |-> DigitValue(cleaned[i])]
  IN /\ Len(cleaned) = ROUTING_NUMBER_LENGTH
     /\ \A i \in DOMAIN cleaned : cleaned[i] \in Digits
     /\ ((digits[1] + digits[4] + digits[7]) + (digits[2] + digits[5] + digits[8])
          + (digits[3] + digits[6] + digits[9])) % 10 = 0

\* validateRoutingNumber of a string: whitespace and dashes are removed, then
\* nine digits are required and the weighted sum must be a multiple of ten
validateRoutingNumber(value) ==
  LET cleaned == removeAll(value, {" ", "-"})
      digits == [i \in DOMAIN cleaned |-> DigitValue(cleaned[i])]
  IN /\ Len(cleaned) = ROUTING_NUMBER_LENGTH
     /\ \A i \in DOMAIN cleaned : cleaned[i] \in Digits
     /\ (3 * (digits[1] + digits[4] + digits[7]) + 7 * (digits[2] + digits[5] + digits[8])
          + (digits[3] + digits[6] + digits[9])) % 10 = 0

\* the digits the nine-digit strings of the model are made of
RoutingBaseDigits == {"0", "1"}

\* the strings given to validateRoutingNumber: routing numbers in use, every
\* nine-digit string of the base digits, and strings that are no nine digits
RoutingStrings ==
  {<<"0", "2", "1", "0", "0", "0", "0", "2", "1">>,
   <<"1", "2", "1", "0", "0", "0", "2", "4", "8">>,
   <<"0", "2", "1", "0", "-", "0", "0", "0", "2", "1">>,
   <<"0", "2", "1", "0", "0", "0", "0", "2">>,
   <<"0", "2", "1", "0", "0", "0", "0", "2", "1", "0">>,
   <<"0", "2", "1", "0", "0", "0", "0", "2", "a">>,
   <<>>}
  \cup [1..ROUTING_NUMBER_LENGTH -> RoutingBaseDigits]

\* one call of validateRoutingNumber
ValidateRoutingNumber(value) ==
  /\ applied = NoApplication
  /\ applied' = [fn |-> "validateRoutingNumber", input |-> value,
                 output |-> validateRoutingNumber(value),
                 changed |-> FALSE, before |-> FALSE]
  /\ UNCHANGED <<settings, store, ext, req, doc, met, cor, lazy>>
  /\ UNCHANGED classifyVars

\* a second call with the string of the first call changed in one digit
ValidateChangedRoutingNumber(i, d) ==
  /\ applied.fn = "validateRoutingNumber"
  /\ ~applied.changed
  /\ i \in DOMAIN applied.input
  /\ applied.input[i] \in Digits
  /\ d # applied.input[i]
  /\ LET value == [applied.input EXCEPT ![i] = d]
     IN applied' = [fn |-> "validateRoutingNumber", input |-> value,
                    output |-> validateRoutingNumber(value),
                    changed |-> TRUE, before |-> applied.output]
  /\ UNCHANGED <<settings, store, ext, req, doc, met, cor, lazy>>
  /\ UNCHANGED classifyVars

-----------------------------------------------------------------------------
(* ExtractionService.findFieldLocation *)

MIN_SEARCHABLE_TEXT_LENGTH == 2
MIN_PARTIAL_MATCH_LENGTH == 6
MIN_CONTAINED_MATCH_LENGTH_SHORT == 4
MIN_CONTAINED_MATCH_LENGTH_LONG == 8
LONG_PHRASE_THRESHOLD == 15

\* the characters [a-z0-9\s] of the texts of the model
NormalChars == Digits \cup {"n", "o", "x", " "}

\* String.prototype.toLowerCase, for the characters of the model
toLowerCase(s) == [i \in DOMAIN s |-> IF s[i] = "N" THEN "n" ELSE s[i]]

\* text.toLowerCase().replace(/[^a-z0-9\s]/g, '')
normalizeText(s) == SelectSeq(toLowerCase(s), LAMBDA c : c \in NormalChars)

\* String.prototype.includes
includesText(s, t) ==
  \E k \in 0..(Len(s) - Len(t)) : SubSeq(s, k + 1, k + Len(t)) = t

\* searchText.split(/\s+/).length
splitOnSpacesLength(s) ==
  1 + Cardinality({i \in DOMAIN s : s[i] = " " /\ (i = 1 \/ s[i - 1] # " ")})

\* the words i..j of a page joined by blanks
RECURSIVE combinedText(_, _, _)
combinedText(words, i, j) ==
  IF j = i THEN words[i].text
  ELSE combinedText(words, i, j - 1) \o <<" ">> \o words[j].text

\* the box around the words i..j: [minX, minY, maxX - minX, maxY - minY]
RECURSIVE spanBox(_, _, _)
spanBox(words, i, j) ==
  LET b == words[j].bbox
  IN IF j = i THEN [minX |-> b[1], minY |-> b[2], maxX |-> b[1] + b[3], maxY |-> b[2] + b[4]]
     ELSE LET r == spanBox(words, i, j - 1)
          IN [minX |-> Min(r.minX, b[1]), minY |-> Min(r.minY, b[2]),
              maxX |-> Max(r.maxX, b[1] + b[3]), maxY |-> Max(r.maxY, b[2] + b[4])]

spanBbox(words, i, j) ==
  LET r == spanBox(words, i, j)
  IN <<r.minX, r.minY, r.maxX - r.minX, r.maxY - r.minY>>

NoLocation == [pageNumber |-> None, bbox |-> None]

Location(page, bbox) == [pageNumber |-> Some(page), bbox |-> Some(bbox)]

\* the three tests on the words i..j combined: equal, equal without
\* whitespace, or containing a search text that is long enough
spanMatches(words, i, j, searchText) ==
  LET normalizedSearch == normalizeText(searchText)
      normalizedCombined == normalizeText(combinedText(words, i, j))
      minLength == IF Len(searchText) > LONG_PHRASE_THRESHOLD
                     THEN MIN_CONTAINED_MATCH_LENGTH_LONG
                     ELSE MIN_CONTAINED_MATCH_LENGTH_SHORT
  IN \/ normalizedCombined = normalizedSearch
     \/ removeAll(normalizedCombined, {" "}) = removeAll(normalizedSearch, {" "})
     \/ includesText(normalizedCombined, normalizedSearch) /\ Len(normalizedSearch) > minLength

\* the body of the loop over the words for word i: the word itself, then the
\* spans that begin with it
matchAtWord(words, i, searchText) ==
  LET maxLookahead == Min(Max(splitOnSpacesLength(searchText) + 3, 10), 20)
      spans == {j \in (i + 1)..Min(i - 1 + maxLookahead, Len(words)) :
                  spanMatches(words, i, j, searchText)}
  IN IF normalizeText(words[i].text) = normalizeText(searchText)
       THEN Some(words[i].bbox)
     ELSE IF i < Len(words) /\ spans # {}
       THEN Some(spanBbox(words, i, CHOOSE j \in spans : \A k \in spans : j <= k))
     ELSE None

\* the body of the loop over the pages for one page
matchOnPage(words, searchText) ==
  LET normalizedSearch == normalizeText(searchText)
      hits == {i \in DOMAIN words : matchAtWord(words, i, searchText) # None}
      partial == {i \in DOMAIN words :
                    includesText(normalizeText(words[i].text), normalizedSearch)}
  IN IF hits # {}
       THEN matchAtWord(words, CHOOSE i \in hits : \A k \in hits : i <= k, searchText)
     ELSE IF Len(normalizedSearch) > MIN_PARTIAL_MATCH_LENGTH /\ partial # {}
       THEN Some(words[CHOOSE i \in partial : \A k \in partial : i <= k].bbox)
     ELSE None

\* the text searched for a value; None when the function returns at once
searchTextOf(value) ==
  CASE value.t = "string" -> Some(trim(value.s))
    [] value.t = "number" -> Some(value.s)
    [] value.t = "array" -> IF Len(value.a) > 0 THEN Some(value.a[1]) ELSE None
    [] OTHER -> None

findFieldLocation(value, ocrPages) ==
  IF Len(ocrPages) = 0 \/ searchTextOf(value) = None THEN NoLocation
  ELSE LET searchText == searchTextOf(value)[1]
           found == {p \in DOMAIN ocrPages :
                       matchOnPage(ocrPages[p].words, searchText) # None}
       IN IF Len(searchText) < MIN_SEARCHABLE_TEXT_LENGTH \/ found = {} THEN NoLocation
          ELSE LET p == CHOOSE q \in found : \A k \in found : q <= k
               IN Location(ocrPages[p].page, matchOnPage(ocrPages[p].words, searchText)[1])

\* the texts of the OCR words of the model
WordTexts ==
  {<<"N", "o", ".">>,
   <<"1", "2", "3", "4", "5">>,
   <<"1", "2">>,
   <<"3", "4", "5">>,
   <<"x", "1", "2", "3", "4", "5", "6", "7">>}

\* the k-th word of a page lies in the k-th column of one line
WordAt(k, text) == [text |-> text, bbox |-> <<20 * k, 10, 15, 5>>]

RECURSIVE WordLists(_)
WordLists(n) ==
  IF n = 0 THEN {<<>>}
  ELSE WordLists(n - 1) \cup
       {Append(ws, WordAt(n, t)) : ws \in {l \in WordLists(n - 1) : Len(l) = n - 1},
                                   t \in WordTexts}

\* the OCR result: a first page of at most one word and a second page of at
\* most MaxLocationWords words
LocationPages ==
  {<<[page |-> 1, words |-> w1], [page |-> 2, words |-> w2]>> :
     w1 \in WordLists(1), w2 \in WordLists(MaxLocationWords)}

\* the extracted values searched for
LocationValues ==
  {[t |-> "string", s |-> <<"1", "2", "3", "4", "5">>],
   [t |-> "string", s |-> <<"1", "2", " ", "3", "4", "5">>],
   [t |-> "string", s |-> <<"1", "2", "3", "4", "5", "6", "7">>],
   [t |-> "string", s |-> <<"1">>],
   [t |-> "array", a |-> <<(<<"3", "4", "5">>)>>],
   [t |-> "null"]}

\* one call of findFieldLocation
FindFieldLocation(value, ocrPages) ==
  /\ applied = NoApplication
  /\ applied' = [fn |-> "findFieldLocation", input |-> value, pages |-> ocrPages,
                 output |-> findFieldLocation(value, ocrPages)]
  /\ UNCHANGED <<settings, store, ext, req, doc, met, cor, lazy>>
  /\ UNCHANGED classifyVars

-----------------------------------------------------------------------------
(* ValidationService.validateDocument and ExtractionService.validate *)

\* fieldMap[field.name] = field.value for the fields in order: the entries of
\* the map in the order of the first assignment of each name, with the value
\* assigned last
RECURSIVE fieldMapOf(_)
fieldMapOf(fields) ==
  IF fields = <<>> THEN <<>>
  ELSE LET rest == fieldMapOf(SubSeq(fields, 1, Len(fields) - 1))
           field == fields[Len(fields)]
           at == {i \in DOMAIN rest : rest[i].name = field.name}
       IN IF at = {} THEN Append(rest, [name |-> field.name, value |-> field.value])
          ELSE [i \in DOMAIN rest |-> IF i \in at THEN [rest[i] EXCEPT !.value = field.value]
                                      ELSE rest[i]]

\* validateDocument: the fields given are validated one by one, the names of
\* those that fail are the errors
validateDocument(documentType, entries) ==
  IF getSchema(documentType) = None
    THEN [valid |-> FALSE, errors |-> <<"Unknown document type">>]
    ELSE LET errors == SelectSeq([i \in DOMAIN entries |-> entries[i].name],
                         LAMBDA n : \E i \in DOMAIN entries :
                           /\ entries[i].name = n
                           /\ ~validateField(documentType, n, entries[i].value).passed)
         IN [valid |-> Len(errors) = 0, errors |-> errors]

\* ExtractionService.validate
validate(documentType, fields) == validateDocument(documentType, fieldMapOf(fields))

ValidateTypes == {"W-9", "Unknown", "Driver License"}

\* a field list in the order of the schema: each field of the schema is left
\* out, holds the valid value of the base reply, or holds null
RECURSIVE FieldListsUpTo(_, _)
FieldListsUpTo(documentType, n) ==
  IF n = 0 THEN {<<>>}
  ELSE LET name == getFieldNames(documentType)[n]
           shorter == FieldListsUpTo(documentType, n - 1)
       IN shorter
          \cup {Append(l, [name |-> name, value |-> BaseReply(documentType)[name]]) :
                  l \in shorter}
          \cup {Append(l, [name |-> name, value |-> JsNull]) : l \in shorter}

\* the field lists given to validate: those of the schema, a list with a
\* field twice and a list with a field the schema does not have
FieldLists(documentType) ==
  IF getSchema(documentType) = None THEN {<<>>, <<[name |-> "notes", value |-> JsStr("A")]>>}
  ELSE LET lists == FieldListsUpTo(documentType, Len(getFieldNames(documentType)))
           name == getFieldNames(documentType)[1]
       IN lists
          \cup {<<[name |-> name, value |-> JsNull], [name |-> name, value |-> JsStr("A")]>>,
                <<[name |-> "comment", value |-> JsStr("A")]>>}

\* one call of validate
Validate(documentType, fields) ==
  /\ applied = NoApplication
  /\ applied' = [fn |-> "validate", documentType |-> documentType, input |-> fields,
                 output |-> validate(documentType, fields)]
  /\ UNCHANGED <<settings, store, ext, req, doc, met, cor, lazy>>
  /\ UNCHANGED classifyVars

-----------------------------------------------------------------------------
(* The calls of the functions of the services *)

NextNumber ==
  \E value \in NumberStrings : CoerceToNumber(value)

SpecNumber == Init /\ [][NextNumber]_vars

NextRouting ==
  \/ \E value \in RoutingStrings : ValidateRoutingNumber(value)
  \/ \E i \in 1..(ROUTING_NUMBER_LENGTH + 1), d \in Digits : ValidateChangedRoutingNumber(i, d)

SpecRouting == Init /\ [][NextRouting]_vars

NextLocation ==
  \E value \in LocationValues, ocrPages \in LocationPages :
    FindFieldLocation(value, ocrPages)

SpecLocation == Init /\ [][NextLocation]_vars

NextValidate ==
  \E documentType \in ValidateTypes : \E fields \in FieldLists(documentType) :
    Validate(documentType, fields)

SpecValidate == Init /\ [][NextValidate]_vars

-----------------------------------------------------------------------------
(* POST /:id/correct *)

CorrectionRequests == 1..MaxCorrectionRequests

\* the OCR text of the stored document
CorrectionText == Text(FALSE, {"name"})

\* the extraction stored for a W-9 whose fields were all found
StoredExtraction ==
  extractionResult("W-9", coerceAllFields("W-9", BaseReply("W-9")), CorrectionText,
                   DEFAULT_THRESHOLD)

\* a docs row: ocr_json and extraction are None for NULL
CorrectionRow(type, status, ocr_json, extraction) ==
  [type |-> type, processing_status |-> status, ocr_json |-> ocr_json,
   extraction |-> extraction, corrected |-> FALSE]

\* the rows corrections are posted for: a processed W-9, and a document whose
\* OCR failed
CorrectionRows ==
  {CorrectionRow(Some("W-9"), PROCESSING_STATUS_COMPLETED, Some(CorrectionText),
                 Some(StoredExtraction)),
   CorrectionRow(Some("W-9"), PROCESSING_STATUS_NEEDS_REVIEW, Some(CorrectionText),
                 Some(StoredExtraction)),
   CorrectionRow(None, PROCESSING_STATUS_ERROR, None, None)}

CorrectionBody(correctionType, correctedValue, fieldName, isApproval) ==
  [correctionType |-> correctionType, correctedValue |-> correctedValue,
   fieldName |-> fieldName, isApproval |-> isApproval]

\* the request bodies that pass the checks of the route
CorrectionBodies ==
  {CorrectionBody("classification", "Bank Statement", None, FALSE),
   CorrectionBody("classification", "W-9", None, TRUE),
   CorrectionBody("field", "A", Some("legal_name"), FALSE),
   CorrectionBody("field", "LLC", Some("business_address"), FALSE),
   CorrectionBody("field", "Acme Corp", Some("legal_name"), TRUE),
   CorrectionBody("field", "A", Some("comment"), FALSE)}

NoCorrectionRequest == [pc |-> "none"]

\* the state of the route: the row, and for each request its position, its
\* body, the row it read and the result of its re-extraction
Corrections(row, reqs) == [stored |-> TRUE, row |-> row, reqs |-> reqs]

StoreCorrectionDocument(row) ==
  /\ ~cor.stored
  /\ cor' = Corrections(row, [r \in CorrectionRequests |-> NoCorrectionRequest])
  /\ UNCHANGED <<settings, store, ext, req, doc, met, applied, lazy>>
  /\ UNCHANGED classifyVars

\* the request passed the checks of the body; getDocumentById is awaited
PostCorrect(r, body) ==
  /\ cor.stored
  /\ cor.reqs[r].pc = "none"
  /\ cor' = [cor EXCEPT !.reqs[r] = [pc |-> "get", body |-> body]]
  /\ UNCHANGED <<settings, store, ext, req, doc, met, applied, lazy>>
  /\ UNCHANGED classifyVars

\* getDocumentById answers with the row as it is now
GetDocumentById(r) ==
  /\ cor.stored
  /\ cor.reqs[r].pc = "get"
  /\ cor' = [cor EXCEPT !.reqs[r] = [pc |-> "mark", body |-> cor.reqs[r].body,
                                     document |-> cor.row]]
  /\ UNCHANGED <<settings, store, ext, req, doc, met, applied, lazy>>
  /\ UNCHANGED classifyVars

\* insertCorrectionAsGoldExample and markDocumentAsCorrected
MarkDocumentAsCorrected(r) ==
  /\ cor.stored
  /\ cor.reqs[r].pc = "mark"
  /\ cor' = [cor EXCEPT
       !.row.corrected = TRUE,
       !.row.processing_status =
          IF @ = PROCESSING_STATUS_NEEDS_REVIEW THEN PROCESSING_STATUS_COMPLETED ELSE @,
       !.reqs[r].pc = "handle"]
  /\ UNCHANGED <<settings, store, ext, req, doc, met, applied, lazy>>
  /\ UNCHANGED classifyVars

\* handleClassificationCorrection up to the extract call
HandleClassificationCorrection(r) ==
  /\ cor.stored
  /\ cor.reqs[r].pc = "handle"
  /\ cor.reqs[r].body.correctionType = "classification"
  /\ IF cor.reqs[r].body.isApproval
       THEN cor' = [cor EXCEPT !.reqs[r].pc = "respond"]
       ELSE cor' = [cor EXCEPT
              !.row.type = Some(cor.reqs[r].body.correctedValue),
              !.row.processing_status = PROCESSING_STATUS_EXTRACTION_IN_PROGRESS,
              !.reqs[r].pc = IF cor.reqs[r].document.ocr_json = None
                               THEN "respond" ELSE "extract"]
  /\ UNCHANGED <<settings, store, ext, req, doc, met, applied, lazy>>
  /\ UNCHANGED classifyVars

\* the extract call of the re-extraction and the update that follows it:
\* updateExtractionResults, or markDocumentAsError in the catch
ReExtract(r) ==
  /\ cor.stored
  /\ cor.reqs[r].pc = "extract"
  /\ \E e \in ExtractOutcomes(cor.reqs[r].document.ocr_json[1],
                              cor.reqs[r].body.correctedValue) :
       IF e.kind = "error"
         THEN cor' = [cor EXCEPT !.row.processing_status = PROCESSING_STATUS_ERROR,
                                 !.reqs[r].pc = "respond"]
         ELSE cor' = [cor EXCEPT !.row.extraction = Some(e),
                                 !.row.processing_status = PROCESSING_STATUS_COMPLETED,
                                 !.reqs[r].pc = "respond"]
  /\ UNCHANGED <<settings, store, ext, req, doc, met, applied, lazy>>
  /\ UNCHANGED classifyVars

\* updateFieldWithApproval
updateFieldWithApproval(field) == ("approved" :> TRUE) @@ field

\* updateFieldWithCorrection: the corrected value is coerced when the document
\* has a type
updateFieldWithCorrection(field, fieldName, correctedValue, documentType) ==
  ("value" :> IF documentType # None
                THEN coerceFieldValue(documentType[1], fieldName, JsStr(correctedValue))
                ELSE JsStr(correctedValue))
  @@ ("corrected" :> TRUE) @@ field

\* revalidateField: clarity_confidence || 1
revalidateField(field, fieldName, documentType) ==
  LET validationResult == validateField(documentType, fieldName, field.value)
      clarityConfidence == IF field.clarity_confidence = 0 THEN 100
                           ELSE field.clarity_confidence
  IN ("validation_confidence" :> validationResult.confidence)
     @@ ("validation_status" :> getValidationStatus(validationResult))
     @@ ("validation_error" :> validationResult.error)
     @@ ("final_confidence" :>
           field.llm_confidence * validationResult.confidence * clarityConfidence)
     @@ field

\* the extraction handleFieldCorrection saves, computed from the row the
\* request read; None when the row has no field of that name
correctedExtraction(document, fieldName, correctedValue, isApproval) ==
  LET fields == IF document.extraction = None THEN <<>> ELSE document.extraction[1].fields
      at == {i \in DOMAIN fields : fields[i].name = fieldName}
  IN IF at = {} THEN None
     ELSE LET fieldIndex == CHOOSE i \in at : \A k \in at : i <= k
              updated == IF isApproval THEN updateFieldWithApproval(fields[fieldIndex])
                         ELSE updateFieldWithCorrection(fields[fieldIndex], fieldName,
                                                        correctedValue, document.type)
              field == IF document.type # None
                         THEN revalidateField(updated, fieldName, document.type[1])
                         ELSE updated
          IN Some([document.extraction[1] EXCEPT !.fields[fieldIndex] = field])

\* handleFieldCorrection: saveExtraction writes the whole extraction
HandleFieldCorrection(r) ==
  /\ cor.stored
  /\ cor.reqs[r].pc = "handle"
  /\ cor.reqs[r].body.correctionType = "field"
  /\ LET body == cor.reqs[r].body
         extraction == correctedExtraction(cor.reqs[r].document, body.fieldName[1],
                                           body.correctedValue, body.isApproval)
     IN IF extraction = None
          THEN cor' = [cor EXCEPT !.reqs[r].pc = "respond"]
          ELSE cor' = [cor EXCEPT !.row.extraction = extraction,
                                  !.reqs[r].pc = "respond"]
  /\ UNCHANGED <<settings, store, ext, req, doc, met, applied, lazy>>
  /\ UNCHANGED classifyVars

\* the cache of the metrics is invalidated and the request is answered with 201
RespondCorrection(r) ==
  /\ cor.stored
  /\ cor.reqs[r].pc = "respond"
  /\ cor' = [cor EXCEPT !.reqs[r].pc = "done"]
  /\ UNCHANGED <<settings, store, ext, req, doc, met, applied, lazy>>
  /\ UNCHANGED classifyVars

NextCorrections ==
  \/ \E row \in CorrectionRows : StoreCorrectionDocument(row)
  \/ \E r \in CorrectionRequests, body \in CorrectionBodies : PostCorrect(r, body)
  \/ \E r \in CorrectionRequests : GetDocumentById(r)
  \/ \E r \in CorrectionRequests : MarkDocumentAsCorrected(r)
  \/ \E r \in CorrectionRequests : HandleClassificationCorrection(r)
  \/ \E r \in CorrectionRequests : ReExtract(r)
  \/ \E r \in CorrectionRequests : HandleFieldCorrection(r)
  \/ \E r \in CorrectionRequests : RespondCorrection(r)

SpecCorrections == Init /\ [][NextCorrections]_vars

-----------------------------------------------------------------------------
(* GET /docs/:id with concurrent requests *)

Reads == 1..MaxReads

NoRead == [pc |-> "none"]

\* the docs rows that were classified and have their OCR text but no extraction
LazyRows ==
  {[type |-> Some("Bank Statement"), status |-> s, text |-> text,
    extraction |-> [kind |-> "none"]] :
     s \in {PROCESSING_STATUS_COMPLETED, PROCESSING_STATUS_NEEDS_REVIEW},
     text \in PipelineTexts}

StoreLazyDocument(row) ==
  /\ ~lazy.stored
  /\ lazy' = [stored |-> TRUE, row |-> row, reads |-> [g \in Reads |-> NoRead],
              extractions |-> 0]
  /\ UNCHANGED <<settings, store, ext, req, doc, met, applied, cor>>
  /\ UNCHANGED classifyVars

\* a request arrives; its SELECT is awaited
GetRequest(g) ==
  /\ lazy.stored
  /\ lazy.reads[g].pc = "none"
  /\ lazy' = [lazy EXCEPT !.reads[g] = [pc |-> "select"]]
  /\ UNCHANGED <<settings, store, ext, req, doc, met, applied, cor>>
  /\ UNCHANGED classifyVars

\* the SELECT answers with the row as it is now; the request decides on the
\* extraction by that row
SelectRow(g) ==
  /\ lazy.stored
  /\ lazy.reads[g].pc = "select"
  /\ lazy' = [lazy EXCEPT !.reads[g] =
                [pc |-> IF shouldTriggerExtraction(lazy.row) THEN "update" ELSE "done",
                 document |-> lazy.row]]
  /\ UNCHANGED <<settings, store, ext, req, doc, met, applied, cor>>
  /\ UNCHANGED classifyVars

\* UPDATE docs SET processing_status = 'extraction_in_progress'
SetExtractionInProgress(g) ==
  /\ lazy.stored
  /\ lazy.reads[g].pc = "update"
  /\ lazy' = [lazy EXCEPT !.row.status = PROCESSING_STATUS_EXTRACTION_IN_PROGRESS,
                          !.reads[g].pc = "extract"]
  /\ UNCHANGED <<settings, store, ext, req, doc, met, applied, cor>>
  /\ UNCHANGED classifyVars

\* extractionService.extract is called and ends, then getThreshold
LazyExtract(g) ==
  /\ lazy.stored
  /\ lazy.reads[g].pc = "extract"
  /\ \E e \in ExtractOutcomes(lazy.reads[g].document.text, lazy.reads[g].document.type[1]),
        threshold \in getThreshold(settings, lazy.reads[g].document.type[1]) :
       lazy' = [lazy EXCEPT
         !.extractions = @ + 1,
         !.reads[g] = [pc |-> IF e.kind = "error" THEN "failed" ELSE "store",
                       document |-> lazy.reads[g].document,
                       extractionResult |-> e, threshold |-> threshold]]
  /\ UNCHANGED <<settings, store, ext, req, doc, met, applied, cor>>
  /\ UNCHANGED classifyVars

\* UPDATE docs SET extraction = ?, processing_status = ?
StoreLazyExtraction(g) ==
  /\ lazy.stored
  /\ lazy.reads[g].pc = "store"
  /\ LET this == lazy.reads[g]
         finalStatus ==
           IF overallBelow(this.extractionResult, this.threshold)
             THEN PROCESSING_STATUS_NEEDS_REVIEW
           ELSE IF this.document.status = PROCESSING_STATUS_NEEDS_REVIEW
             THEN PROCESSING_STATUS_NEEDS_REVIEW
           ELSE PROCESSING_STATUS_COMPLETED
     IN lazy' = [lazy EXCEPT !.row.extraction = this.extractionResult,
                             !.row.status = finalStatus,
                             !.reads[g].pc = "done"]
  /\ UNCHANGED <<settings, store, ext, req, doc, met, applied, cor>>
  /\ UNCHANGED classifyVars

\* the catch: UPDATE docs SET processing_status = 'error'
MarkLazyError(g) ==
  /\ lazy.stored
  /\ lazy.reads[g].pc = "failed"
  /\ lazy' = [lazy EXCEPT !.row.status = PROCESSING_STATUS_ERROR,
                          !.reads[g].pc = "done"]
  /\ UNCHANGED <<settings, store, ext, req, doc, met, applied, cor>>
  /\ UNCHANGED classifyVars

NextLazy ==
  \/ \E row \in LazyRows : StoreLazyDocument(row)
  \/ \E g \in Reads : GetRequest(g)
  \/ \E g \in Reads : SelectRow(g)
  \/ \E g \in Reads : SetExtractionInProgress(g)
  \/ \E g \in Reads : LazyExtract(g)
  \/ \E g \in Reads : StoreLazyExtraction(g)
  \/ \E g \in Reads : MarkLazyError(g)

SpecLazy == Init /\ [][NextLazy]_vars

-----------------------------------------------------------------------------
(* Properties of classify and of the tool loop *)

Done == pc = "done"
Returned_ok == Done /\ result.kind = "ok"

\* the result classify builds from its first pass alone
FirstPassResult ==
  classificationResult(first.parsed, first.breakdown, first.toolUsed, first.threshold)

\* C1: within one classify call the learning retry runs at most once, so the
\* tool loop runs at most twice, and a retry runs only after a first pass whose
\* final confidence is below 0.7 and that made no tool call.
C1_RetryAtMostOnce ==
  /\ retry.count <= 1
  /\ pass <= 2
  /\ pass = 2 <=> retry.count = 1
  /\ retry.count = 1 =>
       /\ first.set
       /\ first.breakdown.final_confidence < 700000
       /\ ~first.toolUsed

\* a classify call that ran the retry and returned a result
C1_Witness == Returned_ok /\ retry.count = 1 /\ retry.returned

\* the third reply of the running chatWithTools call carried tool calls
ThirdReplyHasToolCalls ==
  /\ sent = DEFAULT_MAX_ITERATIONS
  /\ Len(assistantMessage.tool_calls) > 0

\* C2 as stated: at most 3 chat requests per call, a reply without tool calls is
\* returned at once, and when the third reply carries tool calls the call fails
\* with the 'max tool iterations exceeded' error.
C2_Original ==
  /\ sent <= 3
  /\ (pc = "chat" => sent < 3)
  /\ (chatResult.kind = "ok" =>
        chatResult.response.tool_calls = <<>> /\ chatResult.response = assistantMessage)
  /\ (pc = "ret" /\ ThirdReplyHasToolCalls => chatResult = ChatError("max_iterations"))

\* C2 amended: at most 3 chat requests per call, a reply without tool calls is
\* returned at once, and when the third reply carries tool calls the call fails
\* without a fourth request, with the 'max tool iterations exceeded' error
\* unless the argument string of one of that reply's tool calls is no JSON, in
\* which case the parse error of that call leaves chatWithTools.
C2_BoundedRequests ==
  /\ sent <= 3
  /\ (pc = "chat" => sent < 3)
  /\ (chatResult.kind = "ok" =>
        chatResult.response.tool_calls = <<>> /\ chatResult.response = assistantMessage)
  /\ (pc = "ret" /\ ThirdReplyHasToolCalls =>
        \/ chatResult = ChatError("max_iterations")
        \/ /\ chatResult = ChatError("arguments")
           /\ \E i \in DOMAIN assistantMessage.tool_calls :
                ~parseToolArguments(assistantMessage.tool_calls[i].arguments).ok)
  /\ (chatResult = ChatError("max_iterations") => ThirdReplyHasToolCalls /\ pending = <<>>)

\* the call failed after a third reply whose tool calls were all executed
C2_Witness ==
  /\ pc = "ret"
  /\ ThirdReplyHasToolCalls
  /\ chatResult = ChatError("max_iterations")
  /\ Len(calls) >= 3

\* C3: every result classify returns has a predicted_type of the closed enum,
\* from the first pass or from an adopted retry.
C3_PredictedTypeInEnum ==
  Returned_ok => result.predicted_type \in DocumentTypeEnum

\* the document_type of the reply the returned result was built from
SourceType ==
  IF retry.adopted THEN retry.parsed.document_type ELSE first.rawType

\* C4: when the reply behind the returned result named a type outside the enum
\* that the remap table knows, the result has the mapped type and a confidence
\* of at most 0.6, on every path through classify.
C4_RemapCapped ==
  (Returned_ok /\ SourceType \notin DocumentTypeEnum
     /\ mapDocumentTypeVariation(SourceType) # NoValue) =>
    /\ result.predicted_type = mapDocumentTypeVariation(SourceType)
    /\ result.llm_confidence <= 60
    /\ result.final_confidence <= 600000

\* C5: the retry's result is adopted only if its final confidence is strictly
\* higher than the first pass's; otherwise the first-pass result is returned
\* unchanged; the returned final confidence is never below the first pass's.
C5_AdoptOnlyIfHigher ==
  (Returned_ok /\ retry.returned) =>
    LET f == first.breakdown.final_confidence
        r == retry.breakdown.final_confidence
    IN /\ result.final_confidence >= f
       /\ (result # FirstPassResult => retry.scored /\ r > f)
       /\ (~(retry.scored /\ r > f) => result = FirstPassResult)
       /\ (retry.scored /\ r > f =>
             /\ result.predicted_type = retry.parsed.document_type
             /\ result.evidence = evidenceOrEmpty(retry.parsed.evidence)
             /\ result.final_confidence = r
             /\ result.llm_confidence = retry.breakdown.llm_confidence
             /\ result.clarity_confidence = retry.breakdown.clarity_confidence)

\* a retry that scored exactly as the first pass, with another answer, was discarded
C5_Witness ==
  /\ Returned_ok
  /\ retry.returned
  /\ retry.scored
  /\ retry.breakdown.final_confidence = first.breakdown.final_confidence
  /\ retry.parsed # first.parsed
  /\ result = FirstPassResult

\* C6: tool_used is true exactly when the LLM made a tool call in the first pass
\* or in the retry pass, whether or not the retry was adopted.
C6_ToolUsedEitherPass ==
  Returned_ok =>
    (result.tool_used <=> (first.toolUsed \/ (retry.returned /\ retry.toolUsed)))

\* C7: requires_review is true exactly when final_confidence is below the
\* threshold configured for the returned predicted_type (0.7 when none is
\* stored).  Stated for the calls whose threshold lookup succeeded.
C7_ReviewByReturnedType ==
  (Returned_ok /\ first.threshold = StoredThreshold(settings, first.parsed.document_type)) =>
    (result.requires_review <=>
       result.final_confidence < ToFinal(StoredThreshold(settings, result.predicted_type)))

\* the position in messages of the tool-result turn of the i-th executed call
ToolTurnIndex(i) == 2 + 2 * i

EnvelopeKeysFound ==
  {"found", "document_type", "ocr_text_excerpt", "corrected_extraction",
   "corrected_field", "note"}

\* C9: every tool-result turn delivered to the LLM is one of the two contract
\* envelopes and so carries the key found, also for a handler that throws or a
\* tool that is not registered.
C9_EnvelopeHasFound ==
  \A i \in DOMAIN messages :
    messages[i].role = "tool" =>
      /\ "found" \in DOMAIN messages[i].content
      /\ IF messages[i].content.found
           THEN DOMAIN messages[i].content = EnvelopeKeysFound
           ELSE \/ DOMAIN messages[i].content = {"found", "message"}
                \/ DOMAIN messages[i].content = {"found", "error"}

\* C10: when the store holds a gold correction for the requested doc_type that
\* matches the keywords and the lookup does not fail, get_gold_example returns
\* the found:true envelope of that type with an excerpt of at most 500
\* characters, also for a document with multi-page OCR data; found:false means
\* that no such example exists or that the lookup failed.
C10_GoldExampleFound ==
  \A i \in DOMAIN calls :
    calls[i].name = "get_gold_example" =>
      LET m == MatchingRows(store, calls[i].args.doc_type,
                            sanitizeKeywords(calls[i].args.keywords))
          r == calls[i].toolResult
      IN /\ (m # {} /\ calls[i].lookup # "error") =>
              /\ r.found
              /\ r.document_type = calls[i].args.doc_type
              /\ r.ocr_text_excerpt <= 500
         /\ ~r.found => (m = {} \/ calls[i].lookup = "error")

\* some reply of the running chatWithTools call carried a tool call that ran
SomeReplyCalledTool ==
  \E i \in DOMAIN messages :
    messages[i].role = "assistant" /\ Len(messages[i].tool_calls) > 0

\* C11: a chatWithTools call that returns hands back the reply without tool
\* calls as response, after at most 3 iterations, with toolUsed true exactly
\* when some reply of the call carried a tool call; so a return on the second or
\* third turn has toolUsed true, whatever the handler returned.
C11_ReturnsFinalReply ==
  chatResult.kind = "ok" =>
    /\ chatResult.response = assistantMessage
    /\ chatResult.response.tool_calls = <<>>
    /\ chatResult.iterations = sent
    /\ chatResult.iterations <= 3
    /\ chatResult.toolUsed <=> SomeReplyCalledTool
    /\ chatResult.iterations >= 2 => chatResult.toolUsed

\* the handler answered found:false to every call and the third reply was final
C11_Witness ==
  /\ chatResult.kind = "ok"
  /\ chatResult.iterations = 3
  /\ chatResult.toolUsed
  /\ Len(calls) >= 2
  /\ \A i \in DOMAIN calls :
       /\ ~calls[i].threw
       /\ ~calls[i].toolResult.found
       /\ calls[i].lookup = "null"

\* C12: every tool call executed during a classify call has its entry in the
\* tool usage log, under the id of the document being classified: the entries
\* of the running chatWithTools call are the last rows of the log, one per call.
C12_ToolCallsLogged ==
  /\ Len(log) >= Len(calls)
  /\ \A i \in DOMAIN calls :
       LET row == log[Len(log) - Len(calls) + i]
       IN /\ row.documentId = docId
          /\ row.toolName = calls[i].name
          /\ row.toolArgs = calls[i].args
          /\ row.toolResult = calls[i].toolResult
          /\ row.success = calls[i].success

\* C13: a failure of the correction store during retrieveLearningExample (the
\* gold-count query or the example query) counts as 'no example found' and is
\* never thrown, so classify does not fail because of it.
C13_LearningFailureTolerated ==
  result # ClassifyError("learning")

-----------------------------------------------------------------------------
(* Properties of the confidence scores and of extract *)

\* the reasons a breakdown with these sub-scores gets below the threshold when
\* no sub-score trips its cut point
TripsNoCutPoint(b) ==
  /\ b.llm_confidence >= LLM_CONFIDENCE_LOW_THRESHOLD
  /\ b.validation_confidence >= VALIDATION_CONFIDENCE_PASS
  /\ b.clarity_confidence >= CLARITY_CONFIDENCE_LOW_THRESHOLD

\* C14: low-confidence reasons are present exactly when the score is below the
\* threshold.  The breakdown that calculateClassificationConfidence scores, the
\* result of classify and every Field of extract have no reasons when
\* final_confidence >= threshold and a non-empty list when it is below, which
\* is the single 'Combined factors' reason when no sub-score trips its cut point.
C14_ReasonsIffBelowThreshold ==
  /\ ext.pc = "scored" =>
       /\ (ext.scored.final_confidence >= ToFinal(ext.threshold)) <=> (ext.scored.reasons = <<>>)
       /\ (ext.scored.final_confidence < ToFinal(ext.threshold) /\ TripsNoCutPoint(ext.scored))
            => ext.scored.reasons = <<"Combined factors">>
  /\ result.kind = "ok" =>
       (result.final_confidence >= ToFinal(result.threshold)) <=> (result.reasons = <<>>)
  /\ ext.result.kind = "ok" =>
       \A i \in DOMAIN ext.result.fields :
         LET f == ext.result.fields[i]
         IN /\ (f.final_confidence >= ToFinal(ext.threshold)) <=> ~f.reasons.present
            /\ f.reasons.present => Len(f.reasons.list) > 0
            /\ (f.reasons.present /\ TripsNoCutPoint(f))
                 => f.reasons.list = <<"Combined factors">>

\* an extraction with a Field at or above the threshold and a Field below it
\* that trips no cut point
C14_Witness ==
  /\ ext.result.kind = "ok"
  /\ \E i, j \in DOMAIN ext.result.fields :
       /\ ~ext.result.fields[i].reasons.present
       /\ ext.result.fields[i].final_confidence >= ToFinal(ext.threshold)
       /\ ext.result.fields[j].reasons.present
       /\ ext.result.fields[j].final_confidence < ToFinal(ext.threshold)
       /\ TripsNoCutPoint(ext.result.fields[j])

\* a percent value in [0, 1]
InUnit(percent) == percent \in CONFIDENCE_MIN..CONFIDENCE_MAX

MissingOrNull(reply, fieldName) ==
  fieldName \notin DOMAIN reply \/ reply[fieldName] = JsNull

\* C16: extract returns exactly one Field per field of the schema, in schema
\* order, whatever keys the reply contains; a schema field that is missing from
\* the reply or null in it has value null, llm_confidence 0 and
\* final_confidence 0.
C16_OneFieldPerSchemaField ==
  ext.result.kind = "ok" =>
    LET fieldNames == getFieldNames(ext.documentType)
        fields == ext.result.fields
    IN /\ Len(fields) = Len(fieldNames)
       /\ \A i \in DOMAIN fields :
            /\ fields[i].name = fieldNames[i]
            /\ MissingOrNull(ext.reply, fieldNames[i]) =>
                 /\ fields[i].value = JsNull
                 /\ fields[i].llm_confidence = 0
                 /\ fields[i].final_confidence = 0

-----------------------------------------------------------------------------
(* Properties of the thresholds *)

\* the entry carries a number outside [0.5, 1.0]
OutOfRange(entry) ==
  entry.value.t = "number"
  /\ (entry.value.n < MIN_THRESHOLD \/ entry.value.n > MAX_THRESHOLD)

\* C17: per-type thresholds stay in [0.5, 1.0].  After any sequence of
\* setThreshold calls and PUT /settings requests every threshold getThreshold
\* can return lies in [0.5, 1.0] and is 0.7 for a type without a stored value,
\* and an update with a value outside the range is rejected and leaves the
\* table as it was.
C17_ThresholdsInRange ==
  /\ \A type \in DocumentTypeEnum :
       /\ \A threshold \in getThreshold(settings, type) :
            threshold \in MIN_THRESHOLD..MAX_THRESHOLD
       /\ settings[buildThresholdKey(type)] = None =>
            getThreshold(settings, type) = {DEFAULT_THRESHOLD}
  /\ (req.kind # "none" /\ \E i \in DOMAIN req.entries : OutOfRange(req.entries[i]))
       => (req.status = "rejected" /\ settings = req.before)

-----------------------------------------------------------------------------
(* Properties of the processing status *)

\* the processing of the document ended without an error
FinishedWithoutError ==
  /\ doc.pc \in {"finished", "answered"}
  /\ doc.status \in {PROCESSING_STATUS_COMPLETED, PROCESSING_STATUS_NEEDS_REVIEW}
  /\ doc.extraction.kind = "ok"

\* C18: low-confidence items are routed to human review.  A document whose
\* processing finishes without error, on the upload pipeline or on the lazy
\* extraction of GET /docs/:id, has status needs_review when its classification
\* confidence or its extraction overall_confidence is below the threshold of
\* its type, and completed only when neither is.
C18_LowConfidenceNeedsReview ==
  FinishedWithoutError =>
    LET threshold == StoredThreshold(settings, doc.type[1])
        below == \/ doc.classification.confidence < ToFinal(threshold)
                 \/ overallBelow(doc.extraction, threshold)
    IN doc.status = (IF below THEN PROCESSING_STATUS_NEEDS_REVIEW
                              ELSE PROCESSING_STATUS_COMPLETED)

\* the order in which processDocument sets the status of a document in progress
StatusOrder ==
  <<PROCESSING_STATUS_PENDING, PROCESSING_STATUS_OCR_IN_PROGRESS,
    PROCESSING_STATUS_CLASSIFICATION_IN_PROGRESS, PROCESSING_STATUS_EXTRACTION_IN_PROGRESS>>

InProgress == {StatusOrder[i] : i \in DOMAIN StatusOrder}

FinalStatuses ==
  {PROCESSING_STATUS_COMPLETED, PROCESSING_STATUS_NEEDS_REVIEW, PROCESSING_STATUS_ERROR}

\* the document was uploaded and is worked on by processDocument
Uploaded == doc.written # <<>> /\ doc.written[1] = PROCESSING_STATUS_PENDING

\* the statuses written so far follow the order, with at most one final status
\* at the end: error after any step, completed or needs_review after the last
WrittenInOrder ==
  \E n \in DOMAIN StatusOrder :
    /\ Len(doc.written) \in {n, n + 1}
    /\ SubSeq(doc.written, 1, n) = SubSeq(StatusOrder, 1, n)
    /\ Len(doc.written) = n + 1 =>
         \/ doc.written[n + 1] = PROCESSING_STATUS_ERROR
         \/ /\ n = Len(StatusOrder)
            /\ doc.written[n + 1] \in {PROCESSING_STATUS_COMPLETED,
                                       PROCESSING_STATUS_NEEDS_REVIEW}

\* C19 as stated: the status advances in the order pending, ocr_in_progress,
\* classification_in_progress, extraction_in_progress, completed or
\* needs_review; a failure of OCR, classification or extraction moves it to
\* error; once processDocument has finished, the status is completed,
\* needs_review or error.
C19_Original ==
  Uploaded =>
    /\ doc.status = doc.written[Len(doc.written)]
    /\ WrittenInOrder
    /\ doc.failure \in {"ocr", "classification", "extraction"} =>
         doc.status = PROCESSING_STATUS_ERROR
    /\ doc.pc \in {"finished", "rejected"} => doc.status \in FinalStatuses

\* C19: the status advances in that order; when processDocument returns, the
\* status is completed, needs_review or error, and it is error exactly when a
\* step or a status update failed; when the update that writes error fails as
\* well, processDocument rejects and the status stays at the last value written.
C19_StatusAdvancesInOrder ==
  Uploaded =>
    /\ doc.status = doc.written[Len(doc.written)]
    /\ WrittenInOrder
    /\ doc.pc = "finished" =>
         /\ doc.status \in FinalStatuses
         /\ (doc.failure # "") <=> (doc.status = PROCESSING_STATUS_ERROR)
    /\ doc.pc = "rejected" => (doc.failure # "" /\ doc.status \in InProgress)
    /\ doc.pc \notin {"finished", "rejected"} => (doc.failure = "" /\ doc.status \in InProgress)

\* an extraction failure after every step before it succeeded has moved the
\* status to error
C19_Witness ==
  /\ doc.pc = "finished"
  /\ doc.failure = "extraction"
  /\ doc.written = Append(StatusOrder, PROCESSING_STATUS_ERROR)

-----------------------------------------------------------------------------
(* Properties of the metrics cache *)

\* C20: metrics update immediately on corrections.  A getMetrics call made
\* after a correction request has completed returns a snapshot calculated
\* after that correction was saved, under any interleaving of getMetrics calls
\* and correction requests: the snapshot counts at least the corrections of the
\* requests that had completed when the call was made.
C20_NoStaleSnapshot ==
  \A c \in MetricCalls :
    met.calls[c].pc = "done" =>
      met.calls[c].snapshot.at >= met.calls[c].completedAtStart

-----------------------------------------------------------------------------
(* Properties of the requests of one classify call *)

\* whether a turn of the conversation carries a gold example: the user turn of
\* the learning retry embeds one, a tool-result turn carries the one
\* get_gold_example found
CarriesGoldExample(m) ==
  \/ m.role = "user" /\ m.content.kind = "learning"
  \/ /\ m.role = "tool"
     /\ "found" \in DOMAIN m.content
     /\ m.content.found

GoldExamplesIn(msgs) ==
  Cardinality({i \in DOMAIN msgs : CarriesGoldExample(msgs[i])})

\* C21: no request of one classify call carries more than one gold example:
\* whenever the loop is about to send the conversation to the LLM, the turns
\* of the conversation hold at most one example, the one of the learning
\* prompt and those of the tool results counted together.
C21_AtMostOneGoldExamplePerRequest ==
  pc = "chat" => GoldExamplesIn(messages) <= 1

\* the assistant turns of a conversation
AssistantTurns(msgs) == {i \in DOMAIN msgs : msgs[i].role = "assistant"}

\* C25: for a reply with k >= 1 tool calls the loop appends one copy of the
\* assistant message and then one tool-result turn per call: when the loop is
\* about to send the next request, the conversation holds one assistant turn
\* per request answered so far and one tool-result turn per executed call.
C25_OneAssistantTurnPerReply ==
  pc = "chat" =>
    /\ Cardinality(AssistantTurns(messages)) = iterations
    /\ Cardinality({i \in DOMAIN messages : messages[i].role = "tool"}) = Len(calls)

\* C29: once the first pass has given a parseable, valid result, classify
\* returns a result whatever happens in the learning retry: an unparseable
\* reply, an error of the LLM or of the transport, a tool loop that exceeds
\* the iteration cap.
C29_RetryFailureTolerated ==
  (pc = "done" /\ pass = 2) => result.kind = "ok"

-----------------------------------------------------------------------------
(* Properties of the functions of the services *)

\* the results the tests and the examples name
NamedNumbers ==
  {<<(<<"5", ".", "3", "6", "2", "0", ".", "7", "8", "7">>), Some(Decimal(53620787, 3))>>,
   <<(<<"1", ",", "2", "3", "4", ".", "5", "6">>), Some(Decimal(123456, 2))>>,
   <<(<<"1", ".", "2", "3", "4", ",", "5", "6">>), Some(Decimal(123456, 2))>>,
   <<(<<"(", "$", "1", ",", "2", "3", "4", ".", "5", "6", ")">>),
     Some(Negated(Decimal(123456, 2)))>>,
   <<(<<>>), None>>,
   <<(<<"a", "b", "c">>), None>>}

\* a string with both separators in which the separator occurring last occurs
\* once, read by the rule: the last one is the decimal point, the other one is
\* stripped everywhere
LastSeparatorIsPoint(s) ==
  LET last == IF lastIndexOf(s, ",") > lastIndexOf(s, ".") THEN "," ELSE "."
      other == IF last = "," THEN "." ELSE ","
  IN replaceFirst(removeAll(s, {other}), last, ".")

OccursOnce(s, c) == Cardinality({i \in DOMAIN s : s[i] = c}) = 1

\* the four rules for one input and its output
NumberNamed(s, out) == \A n \in NamedNumbers : s = n[1] => out = n[2]

NumberIgnoresCurrency(s, out) == out = coerceNumberString(removeAll(s, CurrencyOrSpace))

NumberLastSeparator(s, out) ==
  LET cleaned == removeAll(trim(s), CurrencyOrSpace)
  IN (/\ includes(cleaned, ",")
      /\ includes(cleaned, ".")
      /\ \/ lastIndexOf(cleaned, ",") < lastIndexOf(cleaned, ".")
         \/ OccursOnce(cleaned, ","))
       => out = signAndParse(LastSeparatorIsPoint(cleaned))

NumberSigned(s, out) ==
  LET cleaned == removeAll(trim(s), CurrencyOrSpace)
  IN (cleaned # <<>> /\ Head(cleaned) \in {"-", "("} /\ out # None) => out[1].m <= 0

\* C22: coerceToNumber follows the locale rules for every string: with both
\* separators the one occurring last is the decimal point and the other one is
\* stripped; parentheses or a leading '-' make the result negative; currency
\* symbols and whitespace are ignored; the named strings give the named
\* numbers, and '' and 'abc' give null.
C22_LocaleRules ==
  applied.fn = "coerceToNumber" =>
    /\ NumberNamed(applied.input, applied.output)
    /\ NumberLastSeparator(applied.input, applied.output)
    /\ NumberSigned(applied.input, applied.output)
    /\ NumberIgnoresCurrency(applied.input, applied.output)

\* the sum the routing number check is defined by
RoutingChecksum(s) ==
  3 * (DigitValue(s[1]) + DigitValue(s[4]) + DigitValue(s[7]))
  + 7 * (DigitValue(s[2]) + DigitValue(s[5]) + DigitValue(s[8]))
  + (DigitValue(s[3]) + DigitValue(s[6]) + DigitValue(s[9]))

NineDigits(s) == Len(s) = 9 /\ \A i \in DOMAIN s : s[i] \in Digits

\* C23: validateRoutingNumber accepts a nine-digit string exactly when
\* 3(d1+d4+d7) + 7(d2+d5+d8) + (d3+d6+d9) is divisible by 10; 021000021 is
\* valid; a valid number changed in one digit is invalid.
C23_RoutingChecksum ==
  applied.fn = "validateRoutingNumber" =>
    /\ NineDigits(applied.input) =>
         (applied.output <=> RoutingChecksum(applied.input) % 10 = 0)
    /\ applied.input = <<"0", "2", "1", "0", "0", "0", "0", "2", "1">> => applied.output
    /\ (applied.changed /\ applied.before) => ~applied.output

\* a valid number was changed in one digit and the result was checked
C23_Witness ==
  /\ applied.fn = "validateRoutingNumber"
  /\ applied.changed
  /\ applied.before
  /\ NineDigits(applied.input)
  /\ ~applied.output

\* the words of a page whose normalized text equals the normalized search text
ExactWords(words, searchText) ==
  {i \in DOMAIN words : normalizeText(words[i].text) = normalizeText(searchText)}

\* some match of one of the three kinds exists on a page
MatchesOnPage(words, searchText) ==
  \/ ExactWords(words, searchText) # {}
  \/ \E i, j \in DOMAIN words : i < j /\ spanMatches(words, i, j, searchText)
  \/ /\ Len(normalizeText(searchText)) > MIN_PARTIAL_MATCH_LENGTH
     /\ \E i \in DOMAIN words :
          includesText(normalizeText(words[i].text), normalizeText(searchText))

\* C24: the pages are scanned in order and on each page an exact single-word
\* match comes before a multi-word span and before the substring fallback: the
\* location returned lies on the first page with a match, it is the own box of
\* a word equal to the normalized search text whenever that page has such a
\* word, and it is (null, null) when no page has a match.
C24_ExactWordFirst ==
  applied.fn = "findFieldLocation" =>
    LET text == searchTextOf(applied.input)
        pages == applied.pages
    IN /\ (text = None \/ \A p \in DOMAIN pages : ~MatchesOnPage(pages[p].words, text[1]))
            => applied.output = NoLocation
       /\ applied.output # NoLocation =>
            \E p \in DOMAIN pages :
              /\ pages[p].page = applied.output.pageNumber[1]
              /\ \A q \in 1..(p - 1) : ~MatchesOnPage(pages[q].words, text[1])
              /\ ExactWords(pages[p].words, text[1]) # {} =>
                   \E i \in ExactWords(pages[p].words, text[1]) :
                     applied.output.bbox[1] = pages[p].words[i].bbox

\* the fields of a schema that a document must have
RequiredFields(documentType) ==
  {f.name : f \in {getSchema(documentType)[1][i] : i \in DOMAIN getSchema(documentType)[1]}
              \ {FieldSchema("notes", "optional_string", "")}}

\* field n is in the list and the value it has there passes its schema
PresentAndPasses(documentType, fields, n) ==
  /\ \E i \in DOMAIN fields : fields[i].name = n
  /\ \A i \in DOMAIN fields :
       (fields[i].name = n /\ \A j \in (i + 1)..Len(fields) : fields[j].name # n)
         => safeParse(shapeOf(documentType, n)[1], fields[i].value)

\* C30: validate reports valid = true only if every field of the schema of the
\* type is in the field list and passes its check; valid is true exactly when
\* the list of errors is empty; a list that omits a required field is invalid.
C30_ValidMeansComplete ==
  applied.fn = "validate" =>
    /\ applied.output.valid <=> applied.output.errors = <<>>
    /\ applied.output.valid =>
         /\ getSchema(applied.documentType) # None
         /\ \A n \in RequiredFields(applied.documentType) :
              PresentAndPasses(applied.documentType, applied.input, n)

-----------------------------------------------------------------------------
(* Properties of the correction route *)

\* no correction request is being handled
NoCorrectionRunning ==
  cor.stored /\ \A r \in CorrectionRequests : cor.reqs[r].pc \in {"none", "done"}

\* request r was answered and was a correction of kind correctionType, no
\* approval
CorrectionDone(r, correctionType) ==
  /\ cor.reqs[r].pc = "done"
  /\ cor.reqs[r].body.correctionType = correctionType
  /\ ~cor.reqs[r].body.isApproval

\* C26: once a classification correction (no approval) has completed and no
\* other request is running, processing_status is 'completed' or 'error' and
\* never left at 'extraction_in_progress', also when the document has no OCR
\* data or the re-extraction fails.
C26_CorrectionLeavesFinalStatus ==
  (NoCorrectionRunning /\ \E r \in CorrectionRequests : CorrectionDone(r, "classification"))
    => cor.row.processing_status \in {PROCESSING_STATUS_COMPLETED, PROCESSING_STATUS_ERROR}

\* the value the stored extraction has for field fieldName, None without it
StoredFieldValue(fieldName) ==
  IF cor.row.extraction = None THEN None
  ELSE LET fields == cor.row.extraction[1].fields
           at == {i \in DOMAIN fields : fields[i].name = fieldName}
       IN IF at = {} THEN None ELSE Some(fields[CHOOSE i \in at : TRUE].value)

\* request r corrected a field that the extraction it read has
FieldCorrected(r) ==
  /\ CorrectionDone(r, "field")
  /\ correctedExtraction(cor.reqs[r].document, cor.reqs[r].body.fieldName[1],
                         cor.reqs[r].body.correctedValue, FALSE) # None

\* C27: two concurrent field corrections for different fields of one document
\* are both reflected in the stored extraction: when both were answered, each
\* of the two fields holds the corrected value.
C27_BothFieldCorrectionsStored ==
  \A r1, r2 \in CorrectionRequests :
    (/\ NoCorrectionRunning
     /\ FieldCorrected(r1)
     /\ FieldCorrected(r2)
     /\ cor.reqs[r1].body.fieldName # cor.reqs[r2].body.fieldName)
      => \A r \in {r1, r2} :
           StoredFieldValue(cor.reqs[r].body.fieldName[1])
             = Some(coerceFieldValue("W-9", cor.reqs[r].body.fieldName[1],
                                     JsStr(cor.reqs[r].body.correctedValue)))

-----------------------------------------------------------------------------
(* Properties of the document route *)

\* every request that arrived was answered, and one arrived
AllReadsAnswered ==
  /\ lazy.stored
  /\ \A g \in Reads : lazy.reads[g].pc \in {"none", "done"}
  /\ \E g \in Reads : lazy.reads[g].pc = "done"

\* C28: concurrent GET /docs/:id requests for a document with a type and OCR
\* text but no extraction start at most one lazy extraction, and once they are
\* answered the status is 'completed', 'needs_review' or 'error' and agrees
\* with the stored extraction: 'error' without one, another status with one.
C28_OneLazyExtraction ==
  lazy.stored =>
    /\ lazy.extractions <= 1
    /\ AllReadsAnswered =>
         /\ lazy.row.status \in {PROCESSING_STATUS_COMPLETED, PROCESSING_STATUS_NEEDS_REVIEW,
                                 PROCESSING_STATUS_ERROR}
         /\ lazy.row.status = PROCESSING_STATUS_ERROR <=> lazy.row.extraction.kind = "none"

====
